---- MODULE Spec2Model ----
(***************************************************************************)
(* eikv: an embedded LSM key-value store.  Model of the write path         *)
(* (write queue, memtable, WAL, freeze), the background thread's minor     *)
(* compaction, the manifest and close/reopen, translated from src/src.     *)
(***************************************************************************)
EXTENDS Integers, Sequences, FiniteSets, TLC

\* ------------------------------------------------------------------ bounds
\* Writes issued over the whole run (all sessions).
MaxOps == 3
\* DB instances opened on the path one after the other (1 create + reopens).
MaxSessions == 2
\* DBOptions.wal_size_limit, counted in entries instead of bytes.
WalSizeLimit == 2

\* Client threads calling DB.write.
Writers == {"w1", "w2"}
\* User keys, ordered by <.
Keys == {1, 2}

\* u64::MAX, the seq_guard MemDB::get passes; larger than every seq reached.
U64_MAX == 1000000
\* limit::LEVEL_MIN / limit::LEVEL_MAX.
LEVEL_MIN == 1
LEVEL_MAX == 2
Levels == LEVEL_MIN..LEVEL_MAX

\* Option::None for values (a tombstone, or no entry) and for writers.
NoValue == 0
NoWal == 0
\* Processes that call DB::new on the path.
MaxProcs == 2
Procs == 1..MaxProcs
NoProc == 0
\* No user key (Option::None); user keys are sequences of bytes >= 1.
NoKey == <<0>>

\* ------------------------------------------------------------------ entries
Entry(k, s, v) == [key |-> k, seq |-> s, value |-> v]
NoEntry == Entry(0, 0, NoValue)

\* impl Ord for Entry: by key, then by seq.
EntryLess(a, b) == a.key < b.key \/ (a.key = b.key /\ a.seq < b.seq)
\* impl PartialEq for Entry: key and seq only.
EntryEq(a, b) == a.key = b.key /\ a.seq = b.seq
EntryLE(a, b) == EntryLess(a, b) \/ EntryEq(a, b)

\* An insert that leaves the table as it is.
TableInsertDropped(T, e) == T
\* BTreeSet::insert: an element equal to a present one is not inserted.
TableInsert(T, e) == IF \E x \in T : EntryEq(x, e) THEN T ELSE T \cup {e}

RECURSIVE InsertAll(_, _)
InsertAll(T, entries) ==
    IF entries = <<>> THEN T
    ELSE InsertAll(TableInsert(T, Head(entries)), Tail(entries))

\* table.range(..=&max_entry).next_back()
RangeLast(T, max_entry) ==
    LET below == {e \in T : EntryLE(e, max_entry)}
    IN IF below = {} THEN NoEntry
       ELSE CHOOSE e \in below : \A x \in below : EntryLE(x, e)

\* MemTable::get
MemTableGet(mt, it, key, seq_guard) ==
    LET max_entry == Entry(key, seq_guard, NoValue)
        hit == RangeLast(mt, max_entry)
    IN IF hit # NoEntry THEN hit ELSE RangeLast(it, max_entry)

\* WriteBatch::set_seqs
SetSeqs(entries, start) ==
    [i \in 1..Len(entries) |-> Entry(entries[i].key, start + i - 1, entries[i].value)]

RECURSIVE Flatten(_)
Flatten(records) ==
    IF records = <<>> THEN <<>> ELSE Head(records) \o Flatten(Tail(records))

SeqToSet(s) == {s[i] : i \in 1..Len(s)}
SetMin(S) == CHOOSE x \in S : \A y \in S : x <= y
SetMax(S) == CHOOSE x \in S : \A y \in S : y <= x

\* ------------------------------------------------------------------ inputs
\* WriteBatch::put / WriteBatch::delete: one request per entry, seq 0.
Put(k) == [key |-> k, put |-> TRUE]
Delete(k) == [key |-> k, put |-> FALSE]
Batches == { <<Put(1)>>, <<Put(2), Delete(1)>> }
\* The value the n-th write call puts with its i-th entry: every put is distinct.
ValueOf(n, i) == 2 * (n - 1) + i
BatchEntries(b, n) ==
    [i \in 1..Len(b) |->
        Entry(b[i].key, 0, IF b[i].put THEN ValueOf(n, i) ELSE NoValue)]

\* ------------------------------------------------------------------ state
VARIABLES
    db,             \* "open" | "closing" (Drop waits) | "closed"
    session,        \* how many DB instances were made on the path
    pc,             \* each client thread's position in DB::write
    req,            \* each thread's write_batch argument (seq 0 entries)
    batch,          \* each thread's combined batch (line_up's result)
    new_wal_seq,    \* each thread's local `wal`: the file_seq new_wal made
    queue,          \* WriteQueue.queue
    next_seq,       \* WriteQueue.next_seq
    mut_table,      \* MemTable.mut_table
    immut_table,    \* MemTable.immut_table
    mut_wal,        \* MemDB.mut_wal: the file_seq its Writer has open
    immut_wal,      \* MemDB.immut_wal: NoWal or the file_seq
    manifest,       \* the in-memory Manifest
    current,        \* the manifest file CURRENT names: the published listing
    wal_names,      \* the names present in wal/
    wal_files,      \* the records of every WAL inode still named or open
    sst_files,      \* <<level, file_seq>> -> entries of sst/level/file_seq.sst
    bg,             \* the background thread's position
    minor_sst,      \* sst/tmp/minor.sst: <<>> when absent, else <<entries>>
    request_close,  \* DB.request_close
    ops,            \* write calls issued so far
    stamped,        \* seqs line_up handed out in this session
    expected,       \* per key, the value of the last returned write (NoValue: none)
    overlapped,     \* whether two write calls ever ran at the same time
    acked           \* entries of the writes that returned Ok

\* The files of the database directory as Manifest::dump, create_db and open_db
\* see them step by step, and the process that runs those steps.
VARIABLES
    fs_current,     \* the file `current`: NoFile, EmptyFile or the manifest_seq in it
    fs_current_tmp, \* the file `current.tmp`, likewise
    fs_manifests,   \* manifest_seq -> [complete, listing] of manifest/N.manifest
    fs_files,       \* the WAL and SST files present: <<"wal", n>>, <<"sst", n>>
    fs_lock,        \* whether the file `lock` exists
    d_manifest,     \* that process's in-memory Manifest
    d_pc,           \* its position
    d_op,           \* the caller of the running dump: "create" | "write" | "minor"
    d_seq,          \* dump's local manifest_seq
    d_immut,        \* whether an immutable memtable awaits minor compaction
    d_removed,      \* the file_seq remove_wal returned to minor_compaction
    d_ops,          \* rotations and compactions started so far
    d_crashes,      \* crashes so far
    d_published,    \* the listing of the manifest the last rename published
    d_crash         \* where the last crash hit: "none" | "before_rename" | "after_rename" | "other"

db_vars == <<db, session, pc, req, batch, new_wal_seq, queue, next_seq, mut_table,
             immut_table, mut_wal, immut_wal, manifest, current, wal_names,
             wal_files, sst_files, bg, minor_sst, request_close, ops, stamped,
             expected, overlapped, acked>>

dump_vars == <<fs_current, fs_current_tmp, fs_manifests, fs_files, fs_lock,
               d_manifest, d_pc, d_op, d_seq, d_immut, d_removed, d_ops,
               d_crashes, d_published, d_crash>>

\* One major compaction: the merger, its temporary files and the SSTs listed.
VARIABLES
    m_inputs,       \* the input SSTs' entries, in the order of Merger.iterators
    m_this,         \* which of them (by position) are at the merged level
    m_guard,        \* MergerOptions.version_guard
    m_iters,        \* what each iterator has left to yield
    m_major,        \* major_seq -> entries of sst/tmp/major_N.sst
    m_writer,       \* the major_seq of the file Merger.writer writes
    m_major_seqs,   \* MergerState.major_seqs
    m_out,          \* every entry the merger appended, in order
    m_listed,       \* <<level, file_seq>> -> entries of the SSTs the manifest lists
    m_next_file_seq,\* the manifest's next_file_seq
    m_pc            \* "off" | "merging" | "done"

merge_vars == <<m_inputs, m_this, m_guard, m_iters, m_major, m_writer,
                m_major_seqs, m_out, m_listed, m_next_file_seq, m_pc>>

\* The variables outside the DB's own state.
\* Processes calling DB::new on one path, and the files that decide who gets
\* the database.
VARIABLES
    l_pc,          \* where each process is in DB::new
    l_mode,        \* "create" (create_db) or "open" (open_db), "none" before
    l_dir,         \* the database directory exists
    l_lock_file,   \* the lock file exists
    l_holder,      \* the process holding the exclusive lock, NoProc if none
    l_news         \* calls of DB::new so far

lock_vars == <<l_pc, l_mode, l_dir, l_lock_file, l_holder, l_news>>

\* An SST file written by sst::Writer and read back by sst::Iterator.
VARIABLES
    sst_in,        \* the entries to write, block_size, restart_interval
    sst_w,         \* the Writer: its DataBlockBuilder, offsets, position
    sst_f,         \* the file: data blocks, index blocks, footer
    sst_it,        \* the Iterator, and the entries next() has returned
    sst_pc         \* "off", "write", "written", "iterate", "end", "panic", "error"

sst_vars == <<sst_in, sst_w, sst_f, sst_it, sst_pc>>

\* A WAL file written by wal::Writer and read back by wal::Reader.
VARIABLES
    wio,           \* the batches to append, the records of the file, the
                   \* reader's position and the batches next() has returned
    wio_pc         \* "off", "write", "read", "end", "error"

wio_vars == <<wio, wio_pc>>

\* One call of Manifest::should_merge.
VARIABLES
    sm_in,         \* the SstMetas of level and level + 1, each in the order
                   \* its HashMap iterates, and the seed's place in level
    sm,            \* the locals of should_merge and the passes of its loop
    sm_pc          \* "off", "call", "loop", "for", "done"

sm_vars == <<sm_in, sm, sm_pc>>

\* The background thread's loop over a manifest of SST sizes.
VARIABLES
    bl,            \* LEVEL_MAX, the sizes of the SSTs of each level, has_immut,
                   \* request_close, merger_state, and what the iteration did
    bl_pc          \* "off", "start", "loop", "has_immut", "minor",
                   \* "get_merger", "merge", "wait", "exited"

bl_vars == <<bl, bl_pc>>

\* index_block::Iterator over the index blocks of one SST: the SstMeta it was
\* made from and the file's index blocks (ix.meta, ix.blocks), its fields, the
\* ranges next has returned (ix.out), and what the caller does next.
VARIABLES
    ix,
    ix_pc
ix_vars == <<ix, ix_pc>>

\* A data block of data_block::Builder and a point lookup in it: the entries
\* and options it is built from, the builder, the block, the key looked up
\* and what find returned.
VARIABLES
    lk,
    lk_pc
lk_vars == <<lk, lk_pc>>

aux_vars == <<dump_vars, merge_vars, lock_vars, sst_vars, wio_vars, sm_vars, bl_vars, ix_vars, lk_vars>>
non_dump_vars == <<db_vars, merge_vars, lock_vars, sst_vars, wio_vars, sm_vars, bl_vars, ix_vars, lk_vars>>
non_merge_vars == <<db_vars, dump_vars, lock_vars, sst_vars, wio_vars, sm_vars, bl_vars, ix_vars, lk_vars>>
non_lock_vars == <<db_vars, dump_vars, merge_vars, sst_vars, wio_vars, sm_vars, bl_vars, ix_vars, lk_vars>>
non_sst_vars == <<db_vars, dump_vars, merge_vars, lock_vars, wio_vars, sm_vars, bl_vars, ix_vars, lk_vars>>
non_wio_vars == <<db_vars, dump_vars, merge_vars, lock_vars, sst_vars, sm_vars, bl_vars, ix_vars, lk_vars>>
non_sm_vars == <<db_vars, dump_vars, merge_vars, lock_vars, sst_vars, wio_vars, bl_vars, ix_vars, lk_vars>>
non_bl_vars == <<db_vars, dump_vars, merge_vars, lock_vars, sst_vars, wio_vars, sm_vars, ix_vars, lk_vars>>
non_ix_vars == <<db_vars, dump_vars, merge_vars, lock_vars, sst_vars, wio_vars, sm_vars, bl_vars, lk_vars>>
non_lk_vars == <<db_vars, dump_vars, merge_vars, lock_vars, sst_vars, wio_vars, sm_vars, bl_vars, ix_vars>>

vars == <<db_vars, aux_vars>>

mem_vars == <<queue, next_seq, mut_table, immut_table, mut_wal, immut_wal>>
disk_vars == <<current, wal_names, wal_files, sst_files>>
ghost_vars == <<ops, stamped, expected, overlapped, acked>>

\* ------------------------------------------------------------------ manifest
\* Manifest::new
ManifestNew == [next_file_seq |-> 1, wals |-> {}, sstables |-> [l \in Levels |-> {}]]

\* An alloc_wal that hands out next_file_seq without advancing it.
AllocWalStale(m) == [m EXCEPT !.wals = @ \cup {m.next_file_seq}]
\* Manifest::alloc_wal: the manifest after the call; the file_seq is m.next_file_seq.
AllocWal(m) == [m EXCEPT !.next_file_seq = @ + 1, !.wals = @ \cup {m.next_file_seq}]

\* Manifest::alloc_sst followed by set_sst_meta.
AllocSst(m, level) ==
    [m EXCEPT !.next_file_seq = @ + 1,
              !.sstables[level] = @ \cup {m.next_file_seq}]

\* Manifest::remove_wal: the smallest file_seq of wals.
RemovedWal(m) == SetMin(m.wals)
RemoveWal(m) == [m EXCEPT !.wals = @ \ {RemovedWal(m)}]

\* Manifest::dump: the listing written to manifest/N+1 and published by CURRENT.
Listing(m) == [wals |-> m.wals, ssts |-> UNION {m.sstables[l] : l \in Levels}]

\* get_level: the first level whose directory holds file_seq.sst.
GetLevel(file_seq) ==
    SetMin({l \in Levels : <<l, file_seq>> \in DOMAIN sst_files})

\* Manifest::load
ManifestLoad ==
    [next_file_seq |-> 1,
     wals |-> current.wals,
     sstables |-> [l \in Levels |-> {f \in current.ssts : GetLevel(f) = l}]]

\* ------------------------------------------------------------------ WAL files
WalEntries(f) == Flatten(wal_files[f])
\* Writer::file_offset, in entries.
FileOffset(f) == Len(WalEntries(f))

\* Writer::create: File::create makes the file or truncates the one of that name.
WalCreate(files, f) ==
    [g \in DOMAIN files \cup {f} |-> IF g = f THEN <<>> ELSE files[g]]

\* Writer::append: one record holding the whole batch.
\* An append that frames every entry as a record of its own.
WalAppendPerEntry(files, f, entries) ==
    [files EXCEPT ![f] = @ \o [i \in 1..Len(entries) |-> <<entries[i]>>]]
WalAppend(files, f, entries) == [files EXCEPT ![f] = Append(@, entries)]

\* read_wal: the table and the max seq of the records of wal/file_seq.
ReadWalTable(f) == InsertAll({}, WalEntries(f))
ReadWalMaxSeq(f) ==
    LET seqs == {e.seq : e \in SeqToSet(WalEntries(f))}
    IN IF seqs = {} THEN 0 ELSE SetMax(seqs \cup {0})

\* SstMeta.file_size, in entries.
SstSize(level, f) == Cardinality(sst_files[<<level, f>>])

\* Manifest::level_size
RECURSIVE SumSizes(_, _)
SumSizes(level, fs) ==
    IF fs = {} THEN 0
    ELSE LET f == CHOOSE x \in fs : TRUE
         IN SstSize(level, f) + SumSizes(level, fs \ {f})
LevelSize(m, level) == SumSizes(level, m.sstables[level])

\* 5_u64.pow(n)
RECURSIVE Pow5(_)
Pow5(n) == IF n = 0 THEN 1 ELSE 5 * Pow5(n - 1)

\* get_merger's scan: the levels over the count or the size threshold.
DueLevels(m) ==
    {l \in Levels : Cardinality(m.sstables[l]) > 6
                    \/ LevelSize(m, l) > WalSizeLimit * Pow5(l)}
\* get_merger returns a merger: target_level is neither 0 nor LEVEL_MAX.
MergeDue(m) == DueLevels(m) # {} /\ SetMin(DueLevels(m)) # LEVEL_MAX

\* ------------------------------------------------------------------ DB::get
DBGet(key) ==
    LET e == MemTableGet(mut_table, immut_table, key, U64_MAX)
    IN IF e = NoEntry THEN NoValue ELSE e.value

\* ------------------------------------------------------------------ Init
\* A file that does not exist, and one that File::create made and nothing wrote.
NoFile == -1
EmptyFile == -2
NoListing == [wals |-> {}, ssts |-> {}]

\* Before DB::new: the path does not exist.
DumpInit ==
    /\ fs_current = NoFile
    /\ fs_current_tmp = NoFile
    /\ fs_manifests = <<>>
    /\ fs_files = {}
    /\ fs_lock = FALSE
    /\ d_manifest = ManifestNew
    /\ d_pc = "none"
    /\ d_op = "create"
    /\ d_seq = 0
    /\ d_immut = FALSE
    /\ d_removed = NoWal
    /\ d_ops = 0
    /\ d_crashes = 0
    /\ d_published = NoListing
    /\ d_crash = "none"

\* create_db: Manifest::new, new_wal, MemDB::new(next_seq = 1), dump, spawn.
InitDB ==
    /\ db = "open"
    /\ session = 1
    /\ pc = [t \in Writers |-> "idle"]
    /\ req = [t \in Writers |-> <<>>]
    /\ batch = [t \in Writers |-> <<>>]
    /\ new_wal_seq = [t \in Writers |-> NoWal]
    /\ queue = <<>>
    /\ next_seq = 1
    /\ mut_table = {}
    /\ immut_table = {}
    /\ mut_wal = 1
    /\ immut_wal = NoWal
    /\ manifest = AllocWal(ManifestNew)
    /\ current = Listing(AllocWal(ManifestNew))
    /\ wal_names = {1}
    /\ wal_files = WalCreate(<<>>, 1)
    /\ sst_files = <<>>
    /\ bg = "loop"
    /\ minor_sst = <<>>
    /\ request_close = FALSE
    /\ ops = 0
    /\ stamped = {}
    /\ expected = [k \in Keys |-> NoValue]
    /\ overlapped = FALSE
    /\ acked = {}

\* No merger exists.
MergeOff ==
    /\ m_inputs = <<>>
    /\ m_this = {}
    /\ m_guard = 0
    /\ m_iters = <<>>
    /\ m_major = <<>>
    /\ m_writer = 0
    /\ m_major_seqs = <<>>
    /\ m_out = <<>>
    /\ m_listed = <<>>
    /\ m_next_file_seq = 1
    /\ m_pc = "off"

\* No process has called DB::new.
LockInit ==
    /\ l_pc = [p \in Procs |-> "idle"]
    /\ l_mode = [p \in Procs |-> "none"]
    /\ l_dir = FALSE
    /\ l_lock_file = FALSE
    /\ l_holder = NoProc
    /\ l_news = 0

\* DataBlockBuilder::new
BuilderNew ==
    [group |-> <<>>, entrygroups |-> <<>>, restart_points |-> <<>>,
     restart_index |-> 0, min_user_key |-> NoKey, prev_user_key |-> NoKey]
\* Writer::new on a new file.
WriterNew == [builder |-> BuilderNew, data_block_offsets |-> <<>>, pos |-> 0, appended |-> 0]
NoFooter ==
    [data_block_end |-> 0, data_block_count |-> 0, index_block_start |-> 0,
     index_block_end |-> 0]
FileNew == [blocks |-> <<>>, index |-> <<>>, footer |-> NoFooter]
\* Iterator::new
IteratorNew ==
    [index_block_offset |-> 0, index_block |-> <<>>, index_block_index |-> 0,
     entries |-> <<>>, entry_index |-> 0, out |-> <<>>]

\* No SST is being written or read.
SstOff ==
    /\ sst_in = [entries |-> <<>>, block_size |-> 0, restart_interval |-> 0]
    /\ sst_w = WriterNew
    /\ sst_f = FileNew
    /\ sst_it = IteratorNew
    /\ sst_pc = "off"

\* No WAL is being written or read.
WioOff ==
    /\ wio = [batches |-> <<>>, file |-> <<>>, pos |-> 0, out |-> <<>>]
    /\ wio_pc = "off"

\* The locals of should_merge before the call.
SmNoLocals ==
    [files |-> {}, min_entry |-> 0, max_entry |-> 0,
     this_level_file_seqs |-> <<>>, next_level_file_seqs |-> <<>>,
     changed |-> FALSE, passes |-> 0, visited |-> 0]

\* should_merge is not running.
SmOff ==
    /\ sm_in = [this |-> <<>>, next |-> <<>>, seed |-> 0]
    /\ sm = SmNoLocals
    /\ sm_pc = "off"

\* merger_state = None
NoMerger == [level |-> 0, this_n |-> 0, next_n |-> 0, writers |-> 0]

\* The background thread's state before DB::new.
BlNew ==
    [level_max |-> 0, sstables |-> <<>>, has_immut |-> FALSE,
     request_close |-> FALSE, dropped |-> FALSE, merger |-> NoMerger,
     iters |-> 0, checked |-> FALSE, committed |-> 0]

\* No background thread runs.
BlOff ==
    /\ bl = BlNew
    /\ bl_pc = "off"

\* No index-block iterator exists.
IxOff ==
    /\ ix = [meta |-> NoFooter, block_size |-> 0, blocks |-> <<>>,
             index_block_offset |-> 0, index_block |-> <<>>,
             index_block_index |-> 0, out |-> <<>>]
    /\ ix_pc = "off"

\* data_block::Builder::new; the filter is the set of the keys added to it.
DbBuilderNew ==
    [entries |-> <<>>, restart_points |-> <<>>, restart_index |-> 0,
     filter |-> {}, prev_key |-> <<>>, min_entry |-> <<>>]

\* No data block is being built.
LkOff ==
    /\ lk = [entries |-> <<>>, restart_interval |-> 0, filter |-> "none",
             appended |-> 0, builder |-> DbBuilderNew, key |-> <<>>,
             found |-> <<>>]
    /\ lk_pc = "off"

Init == InitDB /\ DumpInit /\ MergeOff /\ LockInit /\ SstOff /\ WioOff /\ SmOff /\ BlOff /\ IxOff /\ LkOff

\* ------------------------------------------------------------------ DB::write
\* WriteQueue::line_up as the thread at the front runs it: drain the queue into
\* one batch, fetch_add its length on next_seq, stamp the entries.
RECURSIVE Drain(_)
Drain(q) == IF q = <<>> THEN <<>> ELSE Head(q).write_batch \o Drain(Tail(q))

LineUpBatch(q, start) == SetSeqs(Drain(q), start)
\* A line_up whose fetch_add advances next_seq by one, not by the batch's length.
LineUpNextSeqByOne(q, start) == start + 1
LineUpNextSeq(q, start) == start + Len(Drain(q))

\* DB::write up to line_up's return.  The thread pushes its batch; at the front
\* of the queue it leaves as the leader, otherwise it waits on `finished`.
LineUp(t) ==
    /\ db = "open"
    /\ pc[t] = "idle"
    /\ ops < MaxOps
    /\ \E b \in Batches :
         LET pushed == Append(queue, [thread_id |-> t,
                                      write_batch |-> BatchEntries(b, ops + 1)])
         IN /\ req' = [req EXCEPT ![t] = BatchEntries(b, ops + 1)]
            /\ IF Head(pushed).thread_id = t
               THEN /\ batch' = [batch EXCEPT ![t] = LineUpBatch(pushed, next_seq)]
                    /\ next_seq' = LineUpNextSeq(pushed, next_seq)
                    /\ stamped' = stamped \cup
                           {e.seq : e \in SeqToSet(LineUpBatch(pushed, next_seq))}
                    /\ queue' = <<>>
                    /\ pc' = [pc EXCEPT ![t] = "update"]
               ELSE /\ queue' = pushed
                    /\ pc' = [pc EXCEPT ![t] = "line_up_wait"]
                    /\ UNCHANGED <<batch, next_seq, stamped>>
    /\ ops' = ops + 1
    /\ overlapped' = (overlapped \/ \E u \in Writers \ {t} : pc[u] # "idle")
    /\ UNCHANGED <<db, session, new_wal_seq, mut_table, immut_table, mut_wal,
                   immut_wal, manifest, bg, minor_sst, request_close,
                   expected, acked>>
    /\ UNCHANGED disk_vars
    /\ UNCHANGED aux_vars

\* MemDB::write: self.mem_table.update(&write_batch)
Update(t) ==
    /\ pc[t] = "update"
    /\ mut_table' = InsertAll(mut_table, batch[t])
    /\ pc' = [pc EXCEPT ![t] = "append"]
    /\ UNCHANGED <<db, session, req, batch, new_wal_seq, queue, next_seq,
                   immut_table, mut_wal, immut_wal, manifest, bg, minor_sst,
                   request_close>>
    /\ UNCHANGED disk_vars
    /\ UNCHANGED ghost_vars
    /\ UNCHANGED aux_vars

\* MemDB::write: self.mut_wal.lock().unwrap().append(write_batch)
AppendWal(t) ==
    /\ pc[t] = "append"
    /\ wal_files' = WalAppend(wal_files, mut_wal, batch[t])
    /\ pc' = [pc EXCEPT ![t] = "offset"]
    /\ UNCHANGED <<db, session, req, batch, new_wal_seq, manifest, bg, minor_sst,
                   request_close, current, wal_names, sst_files>>
    /\ UNCHANGED mem_vars
    /\ UNCHANGED ghost_vars
    /\ UNCHANGED aux_vars

\* MemDB::write: full = file_offset() > wal_size_limit, read under a second lock
\* of mut_wal.
Offset(t) ==
    /\ pc[t] = "offset"
    /\ pc' = [pc EXCEPT ![t] = IF FileOffset(mut_wal) > WalSizeLimit
                                THEN "new_wal" ELSE "finish"]
    /\ UNCHANGED <<db, session, req, batch, new_wal_seq, manifest, bg, minor_sst,
                   request_close>>
    /\ UNCHANGED mem_vars
    /\ UNCHANGED disk_vars
    /\ UNCHANGED ghost_vars
    /\ UNCHANGED aux_vars

\* new_wal: manifest.lock().unwrap().alloc_wal()
NewWalAlloc(t) ==
    /\ pc[t] = "new_wal"
    /\ new_wal_seq' = [new_wal_seq EXCEPT ![t] = manifest.next_file_seq]
    /\ manifest' = AllocWal(manifest)
    /\ pc' = [pc EXCEPT ![t] = "create_wal"]
    /\ UNCHANGED <<db, session, req, batch, bg, minor_sst, request_close>>
    /\ UNCHANGED mem_vars
    /\ UNCHANGED disk_vars
    /\ UNCHANGED ghost_vars
    /\ UNCHANGED aux_vars

\* new_wal: Writer::create(&wal_path(db_path, file_seq))
NewWalCreate(t) ==
    /\ pc[t] = "create_wal"
    /\ wal_files' = WalCreate(wal_files, new_wal_seq[t])
    /\ wal_names' = wal_names \cup {new_wal_seq[t]}
    /\ pc' = [pc EXCEPT ![t] = "freeze"]
    /\ UNCHANGED <<db, session, req, batch, new_wal_seq, manifest, bg, minor_sst,
                   request_close, current, sst_files>>
    /\ UNCHANGED mem_vars
    /\ UNCHANGED ghost_vars
    /\ UNCHANGED aux_vars

\* MemDB::freeze.  While immut_wal is Some the thread waits on the condition
\* variable minor_compaction, which no code notifies.
Freeze(t) ==
    /\ pc[t] = "freeze"
    /\ IF immut_wal # NoWal
       THEN /\ pc' = [pc EXCEPT ![t] = "freeze_wait"]
            /\ UNCHANGED <<mut_table, immut_table, mut_wal, immut_wal>>
       ELSE /\ immut_table' = mut_table
            /\ mut_table' = {}
            /\ immut_wal' = mut_wal
            /\ mut_wal' = new_wal_seq[t]
            /\ pc' = [pc EXCEPT ![t] = "dump"]
    /\ UNCHANGED <<db, session, req, batch, new_wal_seq, queue, next_seq, manifest,
                   bg, minor_sst, request_close>>
    /\ UNCHANGED disk_vars
    /\ UNCHANGED ghost_vars
    /\ UNCHANGED aux_vars

\* DB::write: self.manifest.lock().unwrap().dump(&self.db_path)
DumpManifest(t) ==
    /\ pc[t] = "dump"
    /\ current' = Listing(manifest)
    /\ pc' = [pc EXCEPT ![t] = "finish"]
    /\ UNCHANGED <<db, session, req, batch, new_wal_seq, manifest, bg, minor_sst,
                   request_close, wal_names, wal_files, sst_files>>
    /\ UNCHANGED mem_vars
    /\ UNCHANGED ghost_vars
    /\ UNCHANGED aux_vars

\* The per-key result of the writes of a batch, applied in order.
RECURSIVE Apply(_, _)
Apply(exp, entries) ==
    IF entries = <<>> THEN exp
    ELSE Apply([exp EXCEPT ![Head(entries).key] = Head(entries).value],
               Tail(entries))

\* DB::write: write_finished (finished.notify_all) and return Ok.  A thread
\* woken in line_up returns None, so its write goes on to write_finished too.
Finish(t) ==
    /\ pc[t] = "finish"
    /\ pc' = [u \in Writers |->
                IF u = t THEN "idle"
                ELSE IF pc[u] = "line_up_wait" THEN "finish" ELSE pc[u]]
    /\ req' = [req EXCEPT ![t] = <<>>]
    /\ batch' = [batch EXCEPT ![t] = <<>>]
    /\ new_wal_seq' = [new_wal_seq EXCEPT ![t] = NoWal]
    /\ expected' = Apply(expected, batch[t])
    /\ acked' = acked \cup SeqToSet(batch[t])
    /\ UNCHANGED <<db, session, manifest, bg, minor_sst, request_close, ops,
                   stamped, overlapped>>
    /\ UNCHANGED mem_vars
    /\ UNCHANGED disk_vars
    /\ UNCHANGED aux_vars

\* ------------------------------------------------------------------ background
\* background_thread: the close check at the top of the loop.
BgLoop ==
    /\ bg = "loop"
    /\ IF request_close
       THEN /\ request_close' = FALSE
            /\ bg' = "exited"
       ELSE /\ bg' = "has_immut"
            /\ UNCHANGED request_close
    /\ UNCHANGED <<db, session, pc, req, batch, new_wal_seq, manifest, minor_sst>>
    /\ UNCHANGED mem_vars
    /\ UNCHANGED disk_vars
    /\ UNCHANGED ghost_vars
    /\ UNCHANGED aux_vars

\* background_thread: mem_db.has_immut(), else get_merger, else wait_immut
\* (which returns on has_immut's signal or after its timeout).
BgHasImmut ==
    /\ bg = "has_immut"
    /\ bg' = IF immut_wal # NoWal THEN "minor_dump"
             ELSE IF MergeDue(manifest) THEN "merge" ELSE "loop"
    /\ UNCHANGED <<db, session, pc, req, batch, new_wal_seq, manifest, minor_sst,
                   request_close>>
    /\ UNCHANGED mem_vars
    /\ UNCHANGED disk_vars
    /\ UNCHANGED ghost_vars
    /\ UNCHANGED aux_vars

\* MemTable::dump: write immut_table to the SST writer, then release it.
MemTableDump(it) == [sst |-> it, immut_table |-> {}]

\* minor_compaction: mem_db.dump(writer) into sst/tmp/minor.sst; immut_wal = None.
BgMinorDump ==
    /\ bg = "minor_dump"
    /\ minor_sst' = <<MemTableDump(immut_table).sst>>
    /\ immut_table' = MemTableDump(immut_table).immut_table
    /\ immut_wal' = NoWal
    /\ bg' = "minor_commit"
    /\ UNCHANGED <<db, session, pc, req, batch, new_wal_seq, queue, next_seq,
                   mut_table, mut_wal, manifest, request_close>>
    /\ UNCHANGED disk_vars
    /\ UNCHANGED ghost_vars
    /\ UNCHANGED aux_vars

\* The WAL files a Writer that is still written or measured has open: mut_wal,
\* and the `wal` a thread carries from new_wal to freeze.
OpenWals ==
    {mut_wal} \cup {new_wal_seq[t] : t \in {u \in Writers :
                                            pc[u] \in {"freeze", "freeze_wait"}}}

\* remove_file on a WAL: the name goes; the inode stays while a Writer has it open.
Unlink(files, f) ==
    IF f \in OpenWals THEN files
    ELSE [g \in DOMAIN files \ {f} |-> files[g]]

\* rename(tmp, sst_path): the file of that name is made or replaced.
SstRename(files, level, f, entries) ==
    [g \in DOMAIN files \cup {<<level, f>>} |->
        IF g = <<level, f>> THEN entries ELSE files[g]]

\* The manifest minor_compaction leaves: alloc_sst, set_sst_meta, remove_wal.
MinorManifest(m) == RemoveWal(AllocSst(m, LEVEL_MIN))

\* minor_compaction under the manifest lock: alloc_sst, rename, set_sst_meta,
\* remove_wal, dump, remove_file(wal).  remove_file of a missing name is an
\* error, on which the thread ends (background_thread(..).unwrap()).
BgMinorCommit ==
    /\ bg = "minor_commit"
    /\ LET file_seq == manifest.next_file_seq
           wal_seq == RemovedWal(AllocSst(manifest, LEVEL_MIN))
       IN /\ sst_files' = SstRename(sst_files, LEVEL_MIN, file_seq, minor_sst[1])
          /\ manifest' = MinorManifest(manifest)
          /\ current' = Listing(MinorManifest(manifest))
          /\ IF wal_seq \in wal_names
             THEN /\ wal_names' = wal_names \ {wal_seq}
                  /\ wal_files' = Unlink(wal_files, wal_seq)
                  /\ bg' = "loop"
             ELSE /\ bg' = "failed"
                  /\ UNCHANGED <<wal_names, wal_files>>
    /\ minor_sst' = <<>>
    /\ UNCHANGED <<db, session, pc, req, batch, new_wal_seq, request_close>>
    /\ UNCHANGED mem_vars
    /\ UNCHANGED ghost_vars
    /\ UNCHANGED aux_vars

\* ------------------------------------------------------------------ close, open
\* impl Drop for DB: request_close = true, then wait.  No call is in flight
\* when the DB is dropped.
Drop ==
    /\ db = "open"
    /\ session < MaxSessions
    /\ \A t \in Writers : pc[t] = "idle"
    /\ request_close' = TRUE
    /\ db' = "closing"
    /\ UNCHANGED <<session, pc, req, batch, new_wal_seq, manifest, bg, minor_sst>>
    /\ UNCHANGED mem_vars
    /\ UNCHANGED disk_vars
    /\ UNCHANGED ghost_vars
    /\ UNCHANGED aux_vars

\* Drop returns once the background thread has reset request_close; the
\* fields are dropped, and with them the open files.
DropReturn ==
    /\ db = "closing"
    /\ ~request_close
    /\ db' = "closed"
    /\ queue' = <<>>
    /\ next_seq' = 0
    /\ mut_table' = {}
    /\ immut_table' = {}
    /\ mut_wal' = NoWal
    /\ immut_wal' = NoWal
    /\ manifest' = ManifestNew
    /\ wal_files' = [g \in wal_names |-> wal_files[g]]
    /\ bg' = "none"
    /\ UNCHANGED <<session, pc, req, batch, new_wal_seq, minor_sst, request_close,
                   current, wal_names, sst_files>>
    /\ UNCHANGED ghost_vars
    /\ UNCHANGED aux_vars

\* load_mem_db: file_seqs sorted; the last is the mutable WAL, the first (when
\* there are several) the immutable one.
MutWalFileSeq(m) == SetMax(m.wals)
LoadMutTable(m) == ReadWalTable(MutWalFileSeq(m))
LoadImmutTable(m) ==
    IF Cardinality(m.wals) = 1 THEN {} ELSE ReadWalTable(SetMin(m.wals))
\* let next_seq = AtomicU64::new(max_seq + 1), max_seq from the mutable WAL.
LoadNextSeq(m) == ReadWalMaxSeq(MutWalFileSeq(m)) + 1

\* open_db can load: CURRENT's manifest names SSTs found in a level directory
\* and at least one WAL, and the WALs load_mem_db reads exist.
OpenOk ==
    /\ current.wals # {}
    /\ \A f \in current.ssts : \E l \in Levels : <<l, f>> \in DOMAIN sst_files
    /\ SetMax(current.wals) \in wal_names
    /\ SetMin(current.wals) \in wal_names

\* DB::new on the existing path: open_db.
Open ==
    /\ db = "closed"
    /\ IF OpenOk
       THEN /\ db' = "open"
            /\ manifest' = ManifestLoad
            /\ mut_table' = LoadMutTable(ManifestLoad)
            /\ immut_table' = LoadImmutTable(ManifestLoad)
            /\ next_seq' = LoadNextSeq(ManifestLoad)
            /\ mut_wal' = MutWalFileSeq(ManifestLoad)
            /\ bg' = "loop"
       ELSE /\ db' = "open_failed"
            /\ UNCHANGED <<manifest, mut_table, immut_table, next_seq,
                           mut_wal, bg>>
    /\ session' = session + 1
    /\ stamped' = {}
    /\ UNCHANGED <<pc, req, batch, new_wal_seq, queue, immut_wal, minor_sst,
                   request_close, ops, expected, overlapped, acked>>
    /\ UNCHANGED disk_vars
    /\ UNCHANGED aux_vars

\* ------------------------------------------------------------------ Next
Write(t) ==
    \/ LineUp(t)
    \/ Update(t)
    \/ AppendWal(t)
    \/ Offset(t)
    \/ NewWalAlloc(t)
    \/ NewWalCreate(t)
    \/ Freeze(t)
    \/ DumpManifest(t)
    \/ Finish(t)

Background == BgLoop \/ BgHasImmut \/ BgMinorDump \/ BgMinorCommit

Next ==
    \/ \E t \in Writers : Write(t)
    \/ Background
    \/ Drop
    \/ DropReturn
    \/ Open

Spec == Init /\ [][Next]_vars

\* ------------------------------------------------------------------ sanity
TypeOK ==
    /\ db \in {"open", "closing", "closed", "open_failed"}
    /\ bg \in {"loop", "has_immut", "minor_dump", "minor_commit", "exited",
               "failed", "none", "merge"}
    /\ queue = <<>>

\* ------------------------------------------------------------------ claims
\* No DB call is in flight on the open DB.
Quiescent == db = "open" /\ \A t \in Writers : pc[t] = "idle"

\* A thread is between line_up's return and write_finished.
Committing(t) ==
    pc[t] \in {"update", "append", "offset", "new_wal", "create_wal", "freeze",
               "freeze_wait", "dump", "finish"}

\* C1: DB.get(k) returns the value of the most recent completed put(k, v), and
\* None when the most recent completed write of k is a delete or k was never
\* put.  Stated for the histories whose write calls never overlapped, where
\* "most recent" is the order of the calls.
C1_GetReturnsLastWrite ==
    (Quiescent /\ ~overlapped) => \A k \in Keys : DBGet(k) = expected[k]

\* What the claim C2 says MemTable.get returns.
EntriesOf(T, key, seq_guard) == {e \in T : e.key = key /\ e.seq <= seq_guard}
NewestOf(S) == CHOOSE e \in S : \A x \in S : x.seq <= e.seq
GetByKey(mt, it, key, seq_guard) ==
    IF EntriesOf(mt, key, seq_guard) # {}
    THEN NewestOf(EntriesOf(mt, key, seq_guard))
    ELSE IF EntriesOf(it, key, seq_guard) # {}
         THEN NewestOf(EntriesOf(it, key, seq_guard))
         ELSE NoEntry

\* C2: MemTable.get(key, seq_guard) returns the entry with the greatest
\* seq <= seq_guard among the entries of that key, from mut_table first and
\* else from immut_table, None when neither holds the key, and never an entry
\* of another key.
C2_MemTableGetByKey ==
    \A k \in Keys :
        MemTableGet(mut_table, immut_table, k, U64_MAX)
            = GetByKey(mut_table, immut_table, k, U64_MAX)

Recorded(e) ==
    \/ \E f \in manifest.wals \cap wal_names : e \in SeqToSet(WalEntries(f))
    \/ \E l \in Levels : \E f \in manifest.sstables[l] :
          /\ <<l, f>> \in DOMAIN sst_files
          /\ e \in sst_files[<<l, f>>]

\* C4: every entry of a write that returned Ok is in a WAL file listed in the
\* manifest's wals or in an SST listed in the manifest.
C4_ReturnedWritesRecorded ==
    db = "open" => \A e \in acked : Recorded(e)

\* The step in which line_up returns thread t its stamped batch.
LineUpReturns(t) == pc[t] = "idle" /\ pc'[t] = "update"

\* C5: within a session the seqs stamped on committed entries are at least 1,
\* consecutive within a batch in batch order, and every seq of a commit is
\* greater than every seq of the commits before it (so all are distinct).
C5_SeqsConsecutiveIncreasing ==
    [][\A t \in Writers :
         LineUpReturns(t) =>
            /\ Len(batch'[t]) = Len(req'[t])
            /\ batch'[t][1].seq >= 1
            /\ \A i \in 1..Len(batch'[t]) : batch'[t][i].seq = batch'[t][1].seq + i - 1
            /\ \A s \in stamped : s < batch'[t][1].seq]_vars

C5_Witness ==
    \E t \in Writers :
        /\ pc[t] = "update"
        /\ Len(batch[t]) = 2
        /\ \E s \in stamped : s < batch[t][1].seq

\* The greatest seq in the WALs load_mem_db replays: the mutable one and, when
\* there are two, the immutable one.
MaxReplayedSeq(wals) ==
    SetMax({ReadWalMaxSeq(SetMax(wals)), ReadWalMaxSeq(SetMin(wals))})

C7_OneLeaderAtATime ==
    \A t, u \in Writers : (Committing(t) /\ Committing(u)) => t = u

\* C8: in every WAL file the records are in commit order: every seq of a record
\* is smaller than every seq of the records after it.
C8_WalInCommitOrder ==
    \A f \in wal_names :
        \A i, j \in 1..Len(wal_files[f]) :
            i < j => \A a \in SeqToSet(wal_files[f][i]) :
                        \A b \in SeqToSet(wal_files[f][j]) : a.seq < b.seq

\* The step in which thread t appends its batch to the WAL.
AppendReturns(t) == pc[t] = "append" /\ pc'[t] = "offset"

Rotating ==
    \/ \E t \in Writers : pc[t] \in {"create_wal", "freeze", "freeze_wait"}
    \/ bg = "minor_commit"

\* C10: the manifest's wals set has one or two elements, and when it has two
\* (and no rotation or compaction is half done) the smaller file_seq is the WAL
\* of the immutable memtable awaiting minor compaction.
C10_OneOrTwoWals ==
    db = "open" =>
        /\ Cardinality(manifest.wals) \in {1, 2}
        /\ (Cardinality(manifest.wals) = 2 /\ ~Rotating) =>
               immut_wal = SetMin(manifest.wals)

\* The step in which minor_compaction's alloc_sst returns.
AllocSstReturns == bg = "minor_commit" /\ bg' # "minor_commit"

\* C11: on one Manifest, every file_seq alloc_wal or alloc_sst returns is the
\* value of the single counter next_file_seq, which the call leaves greater
\* than the value returned and which never decreases: each returned file_seq
\* is greater than every file_seq returned before it.
C11_AllocStrictlyIncreasing ==
    [][(db = "open" /\ db' = "open") =>
          /\ manifest'.next_file_seq >= manifest.next_file_seq
          /\ \A t \in Writers :
                (pc[t] = "new_wal" /\ pc'[t] = "create_wal") =>
                    /\ new_wal_seq'[t] >= manifest.next_file_seq
                    /\ new_wal_seq'[t] < manifest'.next_file_seq
                    /\ new_wal_seq'[t] \in manifest'.wals
          /\ AllocSstReturns =>
                \E f \in manifest'.sstables[LEVEL_MIN] :
                    /\ f >= manifest.next_file_seq
                    /\ f < manifest'.next_file_seq
                    /\ <<LEVEL_MIN, f>> \in DOMAIN sst_files']_vars

C11_Witness ==
    /\ session = 1
    /\ \E f \in manifest.sstables[LEVEL_MIN] :
          \E w \in manifest.wals : 1 < w /\ w < f /\ f < manifest.next_file_seq

\* ------------------------------------------------------------------ Manifest::dump, step by step
\* Rotations and minor compactions run after create_db.
MaxDumpOps == 3
\* Crashes (the process stops between two file operations) over the run.
MaxCrashes == 2

\* What Manifest::load makes of the listing it reads: every SST of this
\* specification is in the directory of LEVEL_MIN.
LoadListing(l) ==
    [next_file_seq |-> 1,
     wals |-> l.wals,
     sstables |-> [lv \in Levels |-> IF lv = LEVEL_MIN THEN l.ssts ELSE {}]]

\* The file File::create leaves, and the file after every line is written.
ManifestCreated == [complete |-> FALSE, listing |-> NoListing]
ManifestWritten(m) == [complete |-> TRUE, listing |-> Listing(m)]
PutManifest(files, n, f) ==
    [k \in DOMAIN files \cup {n} |-> IF k = n THEN f ELSE files[k]]

\* create_db up to its dump: init_db_dir, Manifest::new, new_wal.
DCreateDb ==
    /\ d_pc = "none"
    /\ d_manifest' = AllocWal(ManifestNew)
    /\ fs_files' = fs_files \cup {<<"wal", ManifestNew.next_file_seq>>}
    /\ d_op' = "create"
    /\ d_pc' = "dump_check"
    /\ UNCHANGED <<fs_current, fs_current_tmp, fs_manifests, fs_lock, d_seq,
                   d_immut, d_removed, d_ops, d_crashes, d_published, d_crash>>
    /\ UNCHANGED non_dump_vars

\* DB::write on a full WAL up to its dump: new_wal (alloc_wal, Writer::create)
\* and freeze, which returns at once when no immutable memtable is pending.
DRotate ==
    /\ d_pc = "idle"
    /\ ~d_immut
    /\ d_ops < MaxDumpOps
    /\ d_manifest' = AllocWal(d_manifest)
    /\ fs_files' = fs_files \cup {<<"wal", d_manifest.next_file_seq>>}
    /\ d_immut' = TRUE
    /\ d_op' = "write"
    /\ d_ops' = d_ops + 1
    /\ d_pc' = "dump_check"
    /\ UNCHANGED <<fs_current, fs_current_tmp, fs_manifests, fs_lock, d_seq,
                   d_removed, d_crashes, d_published, d_crash>>
    /\ UNCHANGED non_dump_vars

\* minor_compaction up to its dump: mem_db.dump, alloc_sst, rename to the SST
\* path, set_sst_meta, remove_wal.
DMinor ==
    /\ d_pc = "idle"
    /\ d_immut
    /\ d_ops < MaxDumpOps
    /\ d_manifest' = RemoveWal(AllocSst(d_manifest, LEVEL_MIN))
    /\ d_removed' = RemovedWal(AllocSst(d_manifest, LEVEL_MIN))
    /\ fs_files' = fs_files \cup {<<"sst", d_manifest.next_file_seq>>}
    /\ d_immut' = FALSE
    /\ d_op' = "minor"
    /\ d_ops' = d_ops + 1
    /\ d_pc' = "dump_check"
    /\ UNCHANGED <<fs_current, fs_current_tmp, fs_manifests, fs_lock, d_seq,
                   d_crashes, d_published, d_crash>>
    /\ UNCHANGED non_dump_vars
\* Manifest::dump: when `current` is missing, write_current(current_path, 0),
\* whose first step is File::create.
DumpCheck ==
    /\ d_pc = "dump_check"
    /\ IF fs_current = NoFile
       THEN fs_current' = EmptyFile /\ d_pc' = "dump_init"
       ELSE fs_current' = fs_current /\ d_pc' = "dump_read"
    /\ UNCHANGED <<fs_current_tmp, fs_manifests, fs_files, fs_lock, d_manifest,
                   d_op, d_seq, d_immut, d_removed, d_ops, d_crashes,
                   d_published, d_crash>>
    /\ UNCHANGED non_dump_vars

\* write_current(current_path, 0): file.write("000000").
DumpInitCurrent ==
    /\ d_pc = "dump_init"
    /\ fs_current' = 0
    /\ d_pc' = "dump_read"
    /\ UNCHANGED <<fs_current_tmp, fs_manifests, fs_files, fs_lock, d_manifest,
                   d_op, d_seq, d_immut, d_removed, d_ops, d_crashes,
                   d_published, d_crash>>
    /\ UNCHANGED non_dump_vars

\* let manifest_seq = read_current(db_path)?; File::create(manifest_seq + 1).
DumpCreate ==
    /\ d_pc = "dump_read"
    /\ d_seq' = fs_current
    /\ fs_manifests' = PutManifest(fs_manifests, fs_current + 1, ManifestCreated)
    /\ d_pc' = "dump_write"
    /\ UNCHANGED <<fs_current, fs_current_tmp, fs_files, fs_lock, d_manifest,
                   d_op, d_immut, d_removed, d_ops, d_crashes, d_published,
                   d_crash>>
    /\ UNCHANGED non_dump_vars

\* The lines of wals and of every level are written.
DumpWrite ==
    /\ d_pc = "dump_write"
    /\ fs_manifests' = PutManifest(fs_manifests, d_seq + 1, ManifestWritten(d_manifest))
    /\ d_pc' = "dump_tmp_create"
    /\ UNCHANGED <<fs_current, fs_current_tmp, fs_files, fs_lock, d_manifest,
                   d_op, d_seq, d_immut, d_removed, d_ops, d_crashes,
                   d_published, d_crash>>
    /\ UNCHANGED non_dump_vars

\* atomic_increase_current: write_current(current_tmp_path, read_current + 1),
\* File::create first.
DumpTmpCreate ==
    /\ d_pc = "dump_tmp_create"
    /\ fs_current_tmp' = EmptyFile
    /\ d_pc' = "dump_tmp_write"
    /\ UNCHANGED <<fs_current, fs_manifests, fs_files, fs_lock, d_manifest,
                   d_op, d_seq, d_immut, d_removed, d_ops, d_crashes,
                   d_published, d_crash>>
    /\ UNCHANGED non_dump_vars

DumpTmpWrite ==
    /\ d_pc = "dump_tmp_write"
    /\ fs_current_tmp' = fs_current + 1
    /\ d_pc' = "dump_rename"
    /\ UNCHANGED <<fs_current, fs_manifests, fs_files, fs_lock, d_manifest,
                   d_op, d_seq, d_immut, d_removed, d_ops, d_crashes,
                   d_published, d_crash>>
    /\ UNCHANGED non_dump_vars

\* rename(current_tmp_path, current_path)
DumpRename ==
    /\ d_pc = "dump_rename"
    /\ fs_current' = fs_current_tmp
    /\ fs_current_tmp' = NoFile
    /\ d_published' = fs_manifests[fs_current_tmp].listing
    /\ d_pc' = "dump_remove"
    /\ UNCHANGED <<fs_manifests, fs_files, fs_lock, d_manifest, d_op, d_seq,
                   d_immut, d_removed, d_ops, d_crashes, d_crash>>
    /\ UNCHANGED non_dump_vars

\* if old_manifest_path exists, remove_file(old_manifest_path)
DumpRemoveOld ==
    /\ d_pc = "dump_remove"
    /\ fs_manifests' = [k \in DOMAIN fs_manifests \ {d_seq} |-> fs_manifests[k]]
    /\ d_pc' = "after_dump"
    /\ UNCHANGED <<fs_current, fs_current_tmp, fs_files, fs_lock, d_manifest,
                   d_op, d_seq, d_immut, d_removed, d_ops, d_crashes,
                   d_published, d_crash>>
    /\ UNCHANGED non_dump_vars

\* What the caller does after its dump: create_db makes and locks the lock
\* file, minor_compaction removes the WAL remove_wal named, DB::write returns.
AfterDump ==
    /\ d_pc = "after_dump"
    /\ fs_lock' = (fs_lock \/ d_op = "create")
    /\ fs_files' = IF d_op = "minor" THEN fs_files \ {<<"wal", d_removed>>}
                   ELSE fs_files
    /\ d_pc' = "idle"
    /\ UNCHANGED <<fs_current, fs_current_tmp, fs_manifests, d_manifest, d_op,
                   d_seq, d_immut, d_removed, d_ops, d_crashes, d_published,
                   d_crash>>
    /\ UNCHANGED non_dump_vars
\* The process stops between two file operations.  The files stay as they
\* are; the in-memory state is gone.
DCrash ==
    /\ d_pc \notin {"none", "crashed", "open_failed"}
    /\ d_crashes < MaxCrashes
    /\ d_crashes' = d_crashes + 1
    /\ d_crash' = IF d_pc \in {"dump_tmp_create", "dump_tmp_write", "dump_rename"}
                  THEN "before_rename"
                  ELSE IF d_pc = "dump_remove" THEN "after_rename" ELSE "other"
    /\ d_pc' = "crashed"
    /\ d_manifest' = ManifestNew
    /\ d_immut' = FALSE
    /\ d_seq' = 0
    /\ d_removed' = NoWal
    /\ UNCHANGED <<fs_current, fs_current_tmp, fs_manifests, fs_files, fs_lock,
                   d_op, d_ops, d_published>>
    /\ UNCHANGED non_dump_vars

\* open_db succeeds: the lock file opens, `current` parses, the manifest it
\* names opens, get_level finds every listed SST, and load_mem_db finds the
\* newest and the oldest listed WAL.
DOpenOk ==
    /\ fs_lock
    /\ fs_current \notin {NoFile, EmptyFile}
    /\ fs_current \in DOMAIN fs_manifests
    /\ LET l == fs_manifests[fs_current].listing
       IN /\ l.wals # {}
          /\ \A s \in l.ssts : <<"sst", s>> \in fs_files
          /\ <<"wal", SetMax(l.wals)>> \in fs_files
          /\ <<"wal", SetMin(l.wals)>> \in fs_files

\* DB::new after the crash: the path exists, so open_db.
DOpen ==
    /\ d_pc = "crashed"
    /\ IF DOpenOk
       THEN /\ d_manifest' = LoadListing(fs_manifests[fs_current].listing)
            /\ d_pc' = "idle"
       ELSE /\ d_manifest' = d_manifest
            /\ d_pc' = "open_failed"
    /\ UNCHANGED <<fs_current, fs_current_tmp, fs_manifests, fs_files, fs_lock,
                   d_op, d_seq, d_immut, d_removed, d_ops, d_crashes,
                   d_published, d_crash>>
    /\ UNCHANGED non_dump_vars

NextDump ==
    \/ DCreateDb
    \/ DRotate
    \/ DMinor
    \/ DumpCheck
    \/ DumpInitCurrent
    \/ DumpCreate
    \/ DumpWrite
    \/ DumpTmpCreate
    \/ DumpTmpWrite
    \/ DumpRename
    \/ DumpRemoveOld
    \/ AfterDump
    \/ DCrash
    \/ DOpen

SpecDump == Init /\ [][NextDump]_vars

\* C12: whenever `current` exists, at every step of every dump, the manifest
\* file it names exists and holds a complete listing.
C12_CurrentNamesManifest ==
    fs_current # NoFile =>
        /\ fs_current # EmptyFile
        /\ fs_current \in DOMAIN fs_manifests
        /\ fs_manifests[fs_current].complete

\* C13: after a crash in Manifest::dump between the writing of manifest N+1 and
\* the rename the next open succeeds with the manifest published before the
\* dump (N), after a crash past the rename with the one it published (N+1),
\* and every file that manifest lists exists.
C13_CrashInDumpKeepsManifest ==
    [][(d_pc = "crashed" /\ d_pc' # "crashed"
            /\ d_crash \in {"before_rename", "after_rename"}) =>
          /\ d_pc' = "idle"
          /\ Listing(d_manifest') = d_published
          /\ \A w \in d_published.wals : <<"wal", w>> \in fs_files'
          /\ \A s \in d_published.ssts : <<"sst", s>> \in fs_files']_vars

\* ------------------------------------------------------------------ Merger
\* Seqs of the entries in the input SSTs of a merge: 1..MaxMergeSeq.
MaxMergeSeq == 3
\* Input iterators of a merge.
MaxIters == 2
\* MergerOptions.file_size_limit, counted in entries.
MergeSizeLimit == 0

\* The entries of S as an SST holds them: ascending by (key, seq).
RECURSIVE SortSet(_)
SortSet(S) ==
    IF S = {} THEN <<>>
    ELSE LET lo == CHOOSE e \in S : \A x \in S : EntryLE(e, x)
         IN <<lo>> \o SortSet(S \ {lo})

\* The input SSTs of a merge: every seq is the seq of at most one entry, which
\* is in one SST; no SST is empty.  The order of the iterators is any (the
\* files come out of a HashMap).
IterEntries(a, i) ==
    SortSet({Entry(a[s][1], s, s) : s \in {x \in 1..MaxMergeSeq : a[x][2] = i}})
MergeInputs ==
    UNION { { [i \in 1..n |-> IterEntries(a, i)] :
                a \in {b \in [1..MaxMergeSeq -> Keys \X (0..n)] :
                          \A i \in 1..n : \E s \in 1..MaxMergeSeq : b[s][2] = i} } :
            n \in 1..MaxIters }

\* Merger::finished
Finished(iters) == \A i \in 1..Len(iters) : iters[i] = <<>>

\* Merger::get_min_user_key
GetMinUserKey(iters) ==
    SetMin({iters[i][1].key : i \in {j \in 1..Len(iters) : iters[j] # <<>>}})

\* The entries read_some takes from one iterator: it stops at the first entry
\* of another key.
RECURSIVE KeyPrefix(_, _)
KeyPrefix(it, k) ==
    IF it = <<>> \/ Head(it).key # k THEN <<>>
    ELSE <<Head(it)>> \o KeyPrefix(Tail(it), k)

\* The entries read_some visits, iterator after iterator.
RECURSIVE Taken(_, _)
Taken(iters, k) ==
    IF iters = <<>> THEN <<>>
    ELSE KeyPrefix(Head(iters), k) \o Taken(Tail(iters), k)

\* entries.sort_unstable_by(|e1, e2| e1.seq.cmp(&e2.seq))
RECURSIVE SortBySeq(_)
SortBySeq(s) ==
    IF s = <<>> THEN <<>>
    ELSE LET i == CHOOSE j \in 1..Len(s) : \A x \in 1..Len(s) : s[j].seq <= s[x].seq
         IN <<s[i]>> \o SortBySeq(SubSeq(s, 1, i - 1) \o SubSeq(s, i + 1, Len(s)))

IsAboveGuard(e, guard) == e.seq > guard

\* A read_some that keeps every entry it visits.
ReadSomeKeepAll(iters, guard) == SortBySeq(Taken(iters, GetMinUserKey(iters)))
\* Merger::read_some: the entries above the guard, and of those at or below it
\* the one visited last.
ReadSome(iters, guard) ==
    LET taken == Taken(iters, GetMinUserKey(iters))
        above == SelectSeq(taken, LAMBDA e : IsAboveGuard(e, guard))
        below == SelectSeq(taken, LAMBDA e : ~IsAboveGuard(e, guard))
    IN SortBySeq(IF below = <<>> THEN above ELSE Append(above, below[Len(below)]))

\* The iterators after read_some: each has passed its entries of the key.
AfterReadSome(iters) ==
    [i \in 1..Len(iters) |->
        SubSeq(iters[i], Len(KeyPrefix(iters[i], GetMinUserKey(iters))) + 1,
               Len(iters[i]))]

\* The level a merge reads and the level it writes.
MergeLevel == LEVEL_MIN
OutputLevel == LEVEL_MIN + 1
InputLevel(this, i) == IF i \in this THEN MergeLevel ELSE OutputLevel

\* get_merger's result: the iterators at their first entries, the writer on
\* sst/tmp/major_000001.sst, major_seqs = [1].
MergeStart ==
    /\ \E inp \in MergeInputs :
         \E th \in SUBSET (1..Len(inp)) :
            /\ th # {}
            /\ m_inputs = inp
            /\ m_this = th
            /\ m_iters = inp
            /\ m_listed = [f \in {<<InputLevel(th, i), i>> : i \in 1..Len(inp)} |->
                              inp[f[2]]]
            /\ m_next_file_seq = Len(inp) + 1
    /\ m_guard \in (0..MaxMergeSeq) \cup {U64_MAX}
    /\ m_major = <<<<>>>>
    /\ m_writer = 1
    /\ m_major_seqs = <<1>>
    /\ m_out = <<>>
    /\ m_pc = "merging"

InitMerge == InitDB /\ DumpInit /\ MergeStart /\ LockInit /\ SstOff /\ WioOff /\ SmOff /\ BlOff /\ IxOff /\ LkOff

\* The file sst/tmp/major_<n>.sst after Writer::new(path): opened with
\* create(true).append(true), so what it held stays.
OpenMajor(files, n) ==
    IF n \in DOMAIN files THEN files ELSE Append(files, <<>>)

\* Merger::merge, one round of its loop past the two checks: read_some and
\* the append of what it returned to the current writer.
MergeReadSome ==
    /\ m_pc = "merging"
    /\ ~Finished(m_iters)
    /\ Len(m_major[m_writer]) <= MergeSizeLimit
    /\ LET entries == ReadSome(m_iters, m_guard)
       IN /\ m_major' = [m_major EXCEPT ![m_writer] = @ \o entries]
          /\ m_out' = m_out \o entries
    /\ m_iters' = AfterReadSome(m_iters)
    /\ UNCHANGED <<m_inputs, m_this, m_guard, m_writer, m_major_seqs, m_listed,
                   m_next_file_seq, m_pc>>
    /\ UNCHANGED non_merge_vars

\* Merger::merge returns Full and background_thread gives the merger a writer
\* on sst/tmp/major_<major_seqs.len() + 1>.sst; major_seqs stays as it is.
MergeFull ==
    /\ m_pc = "merging"
    /\ ~Finished(m_iters)
    /\ Len(m_major[m_writer]) > MergeSizeLimit
    /\ LET major_seq == Len(m_major_seqs) + 1
       IN /\ m_major' = OpenMajor(m_major, major_seq)
          /\ m_writer' = major_seq
    /\ UNCHANGED <<m_inputs, m_this, m_guard, m_iters, m_major_seqs, m_out,
                   m_listed, m_next_file_seq, m_pc>>
    /\ UNCHANGED non_merge_vars

\* The SSTs of the manifest after the Finish branch: the file of every
\* major_seq in major_seqs renamed to a newly allocated file_seq of the output
\* level, the inputs removed.
RECURSIVE Committed(_, _, _, _)
Committed(listed, files, major_seqs, next) ==
    IF major_seqs = <<>> THEN listed
    ELSE Committed([f \in DOMAIN listed \cup {<<OutputLevel, next>>} |->
                       IF f = <<OutputLevel, next>> THEN files[Head(major_seqs)]
                       ELSE listed[f]],
                   files, Tail(major_seqs), next + 1)

RemoveInputs(listed, this, n) ==
    [f \in DOMAIN listed \ {<<InputLevel(this, i), i>> : i \in 1..n} |-> listed[f]]

\* Merger::merge returns Finish and background_thread commits the merge.
MergeFinish ==
    /\ m_pc = "merging"
    /\ Finished(m_iters)
    /\ m_listed' = RemoveInputs(Committed(m_listed, m_major, m_major_seqs,
                                          m_next_file_seq),
                                m_this, Len(m_inputs))
    /\ m_next_file_seq' = m_next_file_seq + Len(m_major_seqs)
    /\ m_pc' = "done"
    /\ UNCHANGED <<m_inputs, m_this, m_guard, m_iters, m_major, m_writer,
                   m_major_seqs, m_out>>
    /\ UNCHANGED non_merge_vars

NextMerge ==
    \/ MergeReadSome
    \/ MergeFull
    \/ MergeFinish

SpecMerge == InitMerge /\ [][NextMerge]_vars

\* All entries of the input SSTs of the merge.
InputEntries == UNION {SeqToSet(m_inputs[i]) : i \in 1..Len(m_inputs)}
\* All entries of the SSTs the manifest lists.
ListedEntries == UNION {SeqToSet(m_listed[f]) : f \in DOMAIN m_listed}
\* The newest version of k in a set of entries.
Newest(S, k) ==
    LET of_k == {e \in S : e.key = k}
    IN IF of_k = {} THEN NoEntry
       ELSE CHOOSE e \in of_k : \A x \in of_k : x.seq <= e.seq

\* C14: the output of a merge with version_guard S holds at most one entry of
\* seq <= S for each user key.
C14_OneEntryBelowGuard ==
    \A k \in Keys :
        Cardinality({i \in 1..Len(m_out) :
                        m_out[i].key = k /\ m_out[i].seq <= m_guard}) <= 1
C14_Witness ==
    /\ m_pc = "done"
    /\ Len(m_inputs) = 2
    /\ \E k \in Keys :
         /\ \E i \in 1..Len(m_out) : m_out[i].key = k /\ m_out[i].seq <= m_guard
         /\ \A j \in 1..2 : \E e \in SeqToSet(m_inputs[j]) :
                e.key = k /\ e.seq <= m_guard

\* C15: the entry of seq <= S the merge keeps for a user key is the input
\* entry of that key with the greatest seq <= S, whatever the order of the
\* iterators.
C15_SurvivorIsNewestBelowGuard ==
    \A i \in 1..Len(m_out) :
        m_out[i].seq <= m_guard =>
            m_out[i] = Newest({e \in InputEntries : e.seq <= m_guard}, m_out[i].key)

\* C16: after a major compaction has committed, the newest version of every
\* user key in the listed SSTs is the one the inputs held, every entry the
\* merge wrote is in an SST listed at the output level, and no input SST is
\* listed.
C16_MajorCompactionKeepsNewest ==
    (m_pc = "done" /\ m_guard = U64_MAX) =>
        /\ \A k \in Keys : Newest(ListedEntries, k) = Newest(InputEntries, k)
        /\ \A i \in 1..Len(m_out) :
              \E f \in DOMAIN m_listed : f[1] = OutputLevel /\ m_out[i] \in SeqToSet(m_listed[f])
        /\ \A i \in 1..Len(m_inputs) : <<InputLevel(m_this, i), i>> \notin DOMAIN m_listed

\* ------------------------------------------------------------------ DB::new and the lock file
\* Calls of DB::new.
MaxNews == 4

\* A lock_exclusive that never waits.
LockAlwaysGranted(holder) == TRUE
\* File::lock_exclusive returns when no other open file holds the lock.
LockGranted(holder) == holder = NoProc

\* DB::new: create_db when create_if_missing is set and the path does not
\* exist, open_db otherwise.
LNew(p) ==
    /\ l_pc[p] = "idle"
    /\ l_news < MaxNews
    /\ l_news' = l_news + 1
    /\ \E create_if_missing \in BOOLEAN :
         IF create_if_missing /\ ~l_dir
         THEN /\ l_mode' = [l_mode EXCEPT ![p] = "create"]
              /\ l_pc' = [l_pc EXCEPT ![p] = "init_dir"]
         ELSE /\ l_mode' = [l_mode EXCEPT ![p] = "open"]
              /\ l_pc' = [l_pc EXCEPT ![p] = "open_lock"]
    /\ UNCHANGED <<l_dir, l_lock_file, l_holder>>
    /\ UNCHANGED non_lock_vars

\* init_db_dir: create_dir(db_path) fails when the path exists.
LInitDir(p) ==
    /\ l_pc[p] = "init_dir"
    /\ IF l_dir
       THEN /\ l_pc' = [l_pc EXCEPT ![p] = "error"]
            /\ l_dir' = l_dir
       ELSE /\ l_pc' = [l_pc EXCEPT ![p] = "dump"]
            /\ l_dir' = TRUE
    /\ UNCHANGED <<l_mode, l_lock_file, l_holder, l_news>>
    /\ UNCHANGED non_lock_vars

\* create_db: Manifest::new, new_wal, MemDB::new, manifest.dump.
LDump(p) ==
    /\ l_pc[p] = "dump"
    /\ l_pc' = [l_pc EXCEPT ![p] = "create_lock"]
    /\ UNCHANGED <<l_mode, l_dir, l_lock_file, l_holder, l_news>>
    /\ UNCHANGED non_lock_vars

\* create_db: File::create(lock_file_path)
LCreateLock(p) ==
    /\ l_pc[p] = "create_lock"
    /\ l_lock_file' = TRUE
    /\ l_pc' = [l_pc EXCEPT ![p] = "lock"]
    /\ UNCHANGED <<l_mode, l_dir, l_holder, l_news>>
    /\ UNCHANGED non_lock_vars

\* open_db: File::open(lock_file_path) fails when the file does not exist.
LOpenLock(p) ==
    /\ l_pc[p] = "open_lock"
    /\ l_pc' = [l_pc EXCEPT ![p] = IF l_lock_file THEN "lock" ELSE "error"]
    /\ UNCHANGED <<l_mode, l_dir, l_lock_file, l_holder, l_news>>
    /\ UNCHANGED non_lock_vars

\* lock_file.lock_exclusive() and the rest of create_db / open_db: the DB is
\* returned.
LLockExclusive(p) ==
    /\ l_pc[p] = "lock"
    /\ LockGranted(l_holder)
    /\ l_holder' = p
    /\ l_pc' = [l_pc EXCEPT ![p] = "live"]
    /\ UNCHANGED <<l_mode, l_dir, l_lock_file, l_news>>
    /\ UNCHANGED non_lock_vars

\* The DB is dropped: _lock_file is closed and with it the lock released.
LDrop(p) ==
    /\ l_pc[p] = "live"
    /\ l_holder' = NoProc
    /\ l_pc' = [l_pc EXCEPT ![p] = "idle"]
    /\ l_mode' = [l_mode EXCEPT ![p] = "none"]
    /\ UNCHANGED <<l_dir, l_lock_file, l_news>>
    /\ UNCHANGED non_lock_vars

\* DB::new returns the error.
LError(p) ==
    /\ l_pc[p] = "error"
    /\ l_pc' = [l_pc EXCEPT ![p] = "idle"]
    /\ l_mode' = [l_mode EXCEPT ![p] = "none"]
    /\ UNCHANGED <<l_dir, l_lock_file, l_holder, l_news>>
    /\ UNCHANGED non_lock_vars

NextLock ==
    \E p \in Procs :
        \/ LNew(p)
        \/ LInitDir(p)
        \/ LDump(p)
        \/ LCreateLock(p)
        \/ LOpenLock(p)
        \/ LLockExclusive(p)
        \/ LDrop(p)
        \/ LError(p)

SpecLock == Init /\ [][NextLock]_vars

\* C17: while a DB returned by DB::new on a path is live, no other DB::new on
\* that path returns a DB, also when it races with create_db.
C17_OneLiveInstance ==
    /\ \A p, q \in Procs : (l_pc[p] = "live" /\ l_pc[q] = "live") => p = q
    /\ \A p \in Procs : l_pc[p] = "live" => l_holder = p
C17_Witness ==
    \E p, q \in Procs :
        /\ l_pc[p] = "live" /\ l_mode[p] = "open"
        /\ l_pc[q] = "lock" /\ l_mode[q] = "create"

\* ------------------------------------------------------------------ fairness
\* Every thread that can take a step eventually takes one: the writers, the
\* background thread, and the thread that is returning from Drop.
Fairness ==
    /\ \A t \in Writers : WF_vars(Write(t))
    /\ WF_vars(Background)
    /\ WF_vars(DropReturn)

FairSpec == Spec /\ Fairness

\* C18: under fair scheduling every DB::write that was called returns; a
\* writer waiting in MemDB::freeze goes on once minor compaction has cleared
\* the immutable memtable.
C18_WriteReturns ==
    \A t \in Writers : (pc[t] # "idle") ~> (pc[t] = "idle")

\* ------------------------------------------------------------------ errors in the background thread
\* A step of minor_compaction returns Err (Writer::new, MemTable::dump, rename,
\* SstMeta::new, Manifest::dump or remove_file fails): background_thread
\* returns the error, the closure's unwrap panics and the thread ends.
\* request_close is left as it is and background_thread_exited is not
\* notified.
BgFail ==
    /\ bg \in {"minor_dump", "minor_commit"}
    /\ bg' = "failed"
    /\ UNCHANGED <<db, session, pc, req, batch, new_wal_seq, manifest, minor_sst,
                   request_close>>
    /\ UNCHANGED mem_vars
    /\ UNCHANGED disk_vars
    /\ UNCHANGED ghost_vars
    /\ UNCHANGED aux_vars

NextClose == Next \/ BgFail

SpecClose == Init /\ [][NextClose]_vars

FairSpecClose == SpecClose /\ Fairness

\* C19: in every fair execution a Drop that has requested the close returns,
\* also when the background thread has ended on an error before.
C19_DropReturns == (db = "closing") ~> (db = "closed")

\* ------------------------------------------------------------------ SST writer and iterator
\* Seqs of the entries written to an SST: 1..MaxSstSeq.
MaxSstSeq == 2
\* WriterOptions.restart_interval: 1..MaxRestartInterval.
MaxRestartInterval == 3
\* The encoded length of one entry of an entry group, in bytes.
EntryBytes == 24
\* WriterOptions.block_size (a multiple of 8); block_size / 8 - 1 offsets fit
\* an index block.
BlockSizes == {16, 24, 32}
\* User keys: byte strings with common prefixes.
SstKeys == {<<1>>, <<1, 1>>, <<1, 2>>}

\* Vec<u8> comparison.
RECURSIVE KeyLess(_, _)
KeyLess(a, b) ==
    IF b = <<>> THEN FALSE
    ELSE IF a = <<>> THEN TRUE
    ELSE IF Head(a) # Head(b) THEN Head(a) < Head(b)
    ELSE KeyLess(Tail(a), Tail(b))

\* Merger::compare on SST entries: by user key, then by seq.
SstEntryLess(a, b) == KeyLess(a.key, b.key) \/ (a.key = b.key /\ a.seq < b.seq)

SstEntries == {[key |-> k, seq |-> s, value |-> s] : k \in SstKeys, s \in 1..MaxSstSeq}

RECURSIVE SstSorted(_)
SstSorted(S) ==
    IF S = {} THEN <<>>
    ELSE LET lo == CHOOSE e \in S : \A x \in S \ {e} : SstEntryLess(e, x)
         IN <<lo>> \o SstSorted(S \ {lo})

\* The non-empty streams of entries sorted by (key, seq).
SstStreams == {SstSorted(S) : S \in SUBSET SstEntries \ {{}}}

\* shared_len(s1, s2): the length of the common prefix.
RECURSIVE SharedLen(_, _)
SharedLen(s1, s2) ==
    IF s1 = <<>> \/ s2 = <<>> \/ Head(s1) # Head(s2) THEN 0
    ELSE 1 + SharedLen(Tail(s1), Tail(s2))

\* The entry as DataBlockBuilder::append stores it.
EncodeEntry(e, prev_user_key) ==
    IF prev_user_key # NoKey
    THEN LET n == SharedLen(e.key, prev_user_key)
         IN [shared_len |-> n, unshared_key |-> SubSeq(e.key, n + 1, Len(e.key)),
             seq |-> e.seq, value |-> e.value]
    ELSE [shared_len |-> 0, unshared_key |-> e.key, seq |-> e.seq, value |-> e.value]

\* DataBlockBuilder::append
BuilderAppend(b, e, restart_interval) ==
    LET restart == b.restart_index = 0
        restart_index == (b.restart_index + 1) % restart_interval
        flush == restart_index = 0
        prev == IF restart THEN NoKey ELSE b.prev_user_key
    IN [group |-> Append(IF flush THEN <<>> ELSE b.group, EncodeEntry(e, prev)),
        entrygroups |-> IF flush THEN b.entrygroups \o b.group ELSE b.entrygroups,
        restart_points |->
            IF restart
            THEN Append(b.restart_points, Len(b.entrygroups) * EntryBytes)
            ELSE b.restart_points,
        restart_index |-> restart_index,
        min_user_key |-> IF b.min_user_key = NoKey THEN e.key ELSE b.min_user_key,
        prev_user_key |-> e.key]

\* let full = self.payload.entrygroups.len() >= self.options.block_size
BuilderFull(b, block_size) == Len(b.entrygroups) * EntryBytes >= block_size

\* DataBlockBuilder::build: the last entry group is encoded too.
BuilderBuild(b) ==
    [entrygroups |-> b.entrygroups \o b.group, restart_points |-> b.restart_points]

\* The length of an encoded data block: entry groups, restart points,
\* checksum.
DataBlockBytes(blk) ==
    Len(blk.entrygroups) * EntryBytes + 4 * Len(blk.restart_points) + 4

\* Writer::append / Writer::finish: the builder's block is written at the
\* stream position and a new builder takes its place.
WriteBlock(w, f) ==
    LET blk == BuilderBuild(w.builder)
    IN [w |-> [w EXCEPT !.builder = BuilderNew,
                        !.data_block_offsets = Append(@, w.pos),
                        !.pos = @ + DataBlockBytes(blk)],
        f |-> [f EXCEPT !.blocks = Append(@, [offset |-> w.pos,
                                               size |-> DataBlockBytes(blk),
                                               block |-> blk])]]

\* Writer::append
WriterAppend(w, f, e, opt) ==
    LET w1 == [w EXCEPT !.builder = BuilderAppend(@, e, opt.restart_interval),
                        !.appended = @ + 1]
    IN IF BuilderFull(w1.builder, opt.block_size) THEN WriteBlock(w1, f)
       ELSE [w |-> w1, f |-> f]

\* Offsets in one index block.
OffsetCountOneBlock(block_size) == block_size \div 8 - 1

\* Writer::build_index_block: the index blocks, each block_size bytes long.
BuildIndexBlocks(offsets, block_size) ==
    LET c == OffsetCountOneBlock(block_size)
        index_block_count == (Len(offsets) + c - 1) \div c
    IN [i \in 1..index_block_count |->
          [j \in 1..c |->
              LET k == (i - 1) * c + j
              IN IF k <= Len(offsets) THEN offsets[k] ELSE 0]]

\* Writer::finish
WriterFinish(w, f, opt) ==
    LET wf == IF w.builder.min_user_key # NoKey THEN WriteBlock(w, f)
              ELSE [w |-> w, f |-> f]
        data_block_end == wf.w.pos
        block_size == opt.block_size
        index_block_start ==
            IF data_block_end % block_size # 0
            THEN (data_block_end \div block_size + 1) * block_size
            ELSE data_block_end
        index == BuildIndexBlocks(wf.w.data_block_offsets, block_size)
    IN [w |-> [wf.w EXCEPT !.pos = index_block_start + Len(index) * block_size],
        f |-> [wf.f EXCEPT
                 !.index = index,
                 !.footer = [data_block_end |-> data_block_end,
                             data_block_count |-> Len(wf.w.data_block_offsets),
                             index_block_start |-> index_block_start,
                             index_block_end |->
                                 index_block_start + Len(index) * block_size]]]

\* Iterator::read_index_block: the offsets of the index block at
\* index_block_offset; the last index block is taken to hold
\* data_block_count % (block_size / 8 - 1) of them.  A read past the index
\* blocks is short, which is an error.
ReadIndexBlock(f, index_block_offset, block_size) ==
    LET c == OffsetCountOneBlock(block_size)
        next_offset == index_block_offset + block_size
        count_in_block == IF next_offset = f.footer.index_block_end
                          THEN f.footer.data_block_count % c
                          ELSE c
        i == (index_block_offset - f.footer.index_block_start) \div block_size + 1
    IN IF i \in DOMAIN f.index
       THEN [ok |-> TRUE, index_block |-> [j \in 1..count_in_block |-> f.index[i][j]]]
       ELSE [ok |-> FALSE, index_block |-> <<>>]

\* The keys of the entries of a data block, rebuilt from the shared prefixes;
\* prev_user_key goes on from one entry group to the next.
RECURSIVE DecodeEntries(_, _)
DecodeEntries(encoded, prev_user_key) ==
    IF encoded = <<>> THEN <<>>
    ELSE LET e == Head(encoded)
             user_key == IF e.shared_len = 0 THEN e.unshared_key
                         ELSE SubSeq(prev_user_key, 1, e.shared_len) \o e.unshared_key
         IN <<[key |-> user_key, seq |-> e.seq, value |-> e.value]>>
                \o DecodeEntries(Tail(encoded), user_key)

\* The entry groups between consecutive restart points, one after the other.
RECURSIVE GroupsBetween(_, _, _)
GroupsBetween(entrygroups, restart_points, i) ==
    IF i >= Len(restart_points) THEN <<>>
    ELSE SubSeq(entrygroups, restart_points[i] \div EntryBytes + 1,
                restart_points[i + 1] \div EntryBytes)
            \o GroupsBetween(entrygroups, restart_points, i + 1)

\* Iterator::read_data_block, the decoding of a block that was read.
DecodeDataBlock(blk) ==
    DecodeEntries(
        GroupsBetween(blk.entrygroups,
                      Append(blk.restart_points, Len(blk.entrygroups) * EntryBytes),
                      1),
        <<>>)

\* Iterator::read_data_block: data_block_size bytes at data_block_offset.
\* Bytes that are not one whole data block fail the checksum.
ReadDataBlock(f, data_block_offset, data_block_size) ==
    LET hit == {i \in DOMAIN f.blocks :
                   /\ f.blocks[i].offset = data_block_offset
                   /\ f.blocks[i].size = data_block_size}
    IN IF hit = {} THEN [ok |-> FALSE, entries |-> <<>>]
       ELSE [ok |-> TRUE, entries |-> DecodeDataBlock(f.blocks[CHOOSE i \in hit : TRUE].block)]

\* Iterator::seek_to_first.  index_block[0] and index_block[1] panic when the
\* index block that was read is too short.
SeekToFirst(it, f, block_size) ==
    LET r == ReadIndexBlock(f, f.footer.index_block_start, block_size)
        ib == r.index_block
        one == f.footer.data_block_count = 1
        d == ReadDataBlock(f, ib[1],
                           (IF one THEN f.footer.data_block_end ELSE ib[2]) - ib[1])
    IN IF ~r.ok THEN [pc |-> "error", it |-> it]
       ELSE IF Len(ib) = 0 \/ (~one /\ Len(ib) < 2) THEN [pc |-> "panic", it |-> it]
       ELSE IF ~d.ok THEN [pc |-> "error", it |-> it]
       ELSE [pc |-> "iterate",
             it |-> [it EXCEPT !.index_block_offset = f.footer.index_block_start,
                               !.index_block = ib,
                               !.index_block_index = 0,
                               !.entries = d.entries,
                               !.entry_index = 0]]

\* Iterator::next, first branch: the next entry of the block that is loaded.
NextInBlock(it) ==
    [pc |-> "iterate",
     it |-> [it EXCEPT !.entry_index = @ + 1,
                       !.out = Append(@, it.entries[it.entry_index + 1])]]

\* Iterator::next, second branch: the block at index_block[index_block_index]
\* is read, index_block_index goes up by one, entries[0] is returned and
\* entry_index stays 0.
NextInIndexBlock(it, f) ==
    LET data_block_offset == it.index_block[it.index_block_index + 1]
        next_block_offset == it.index_block[it.index_block_index + 2]
        d == ReadDataBlock(f, data_block_offset, next_block_offset - data_block_offset)
    IN IF ~d.ok THEN [pc |-> "error", it |-> it]
       ELSE IF d.entries = <<>> THEN [pc |-> "panic", it |-> it]
       ELSE [pc |-> "iterate",
             it |-> [it EXCEPT !.entries = d.entries,
                               !.entry_index = 0,
                               !.index_block_index = @ + 1,
                               !.out = Append(@, d.entries[1])]]

\* Iterator::next, last branch: the next index block is read, then the block
\* from the last offset of the old index block to the first of the new one.
NextIndexBlock(it, f, block_size) ==
    LET index_block_offset == it.index_block_offset + block_size
        data_block_offset == it.index_block[Len(it.index_block)]
        r == ReadIndexBlock(f, index_block_offset, block_size)
        d == ReadDataBlock(f, data_block_offset, r.index_block[1] - data_block_offset)
    IN IF ~r.ok THEN [pc |-> "error", it |-> it]
       ELSE IF Len(r.index_block) = 0 THEN [pc |-> "panic", it |-> it]
       ELSE IF ~d.ok THEN [pc |-> "error", it |-> it]
       ELSE IF d.entries = <<>> THEN [pc |-> "panic", it |-> it]
       ELSE [pc |-> "iterate",
             it |-> [it EXCEPT !.index_block_offset = index_block_offset,
                               !.index_block = r.index_block,
                               !.index_block_index = 0,
                               !.entries = d.entries,
                               !.entry_index = 0,
                               !.out = Append(@, d.entries[1])]]

\* Iterator::next
IteratorNext(it, f, block_size) ==
    IF it.entry_index < Len(it.entries) THEN NextInBlock(it)
    ELSE IF it.index_block_index < Len(it.index_block) - 1 THEN NextInIndexBlock(it, f)
    ELSE IF it.index_block_offset = f.footer.index_block_end - block_size
         THEN [pc |-> "end", it |-> it]
    ELSE NextIndexBlock(it, f, block_size)

\* ---- actions
\* Writer::append of the next entry of the stream.
SstAppend ==
    /\ sst_pc = "write"
    /\ sst_w.appended < Len(sst_in.entries)
    /\ LET r == WriterAppend(sst_w, sst_f, sst_in.entries[sst_w.appended + 1], sst_in)
       IN sst_w' = r.w /\ sst_f' = r.f
    /\ UNCHANGED <<sst_in, sst_it, sst_pc>>
    /\ UNCHANGED non_sst_vars

\* Writer::finish after the last entry.
SstFinish ==
    /\ sst_pc = "write"
    /\ sst_w.appended = Len(sst_in.entries)
    /\ LET r == WriterFinish(sst_w, sst_f, sst_in)
       IN sst_w' = r.w /\ sst_f' = r.f
    /\ sst_pc' = "written"
    /\ UNCHANGED <<sst_in, sst_it>>
    /\ UNCHANGED non_sst_vars

\* Iterator::new and Iterator::seek_to_first on the file.
SstSeekToFirst ==
    /\ sst_pc = "written"
    /\ LET r == SeekToFirst(IteratorNew, sst_f, sst_in.block_size)
       IN sst_it' = r.it /\ sst_pc' = r.pc
    /\ UNCHANGED <<sst_in, sst_w, sst_f>>
    /\ UNCHANGED non_sst_vars

\* Iterator::next
SstNext ==
    /\ sst_pc = "iterate"
    /\ LET r == IteratorNext(sst_it, sst_f, sst_in.block_size)
       IN sst_it' = r.it /\ sst_pc' = r.pc
    /\ UNCHANGED <<sst_in, sst_w, sst_f>>
    /\ UNCHANGED non_sst_vars

\* A stream, a block size and a restart interval; Writer::new on a new file.
SstStart ==
    /\ sst_in \in [entries : SstStreams, block_size : BlockSizes,
                   restart_interval : 1..MaxRestartInterval]
    /\ sst_w = WriterNew
    /\ sst_f = FileNew
    /\ sst_it = IteratorNew
    /\ sst_pc = "write"

InitSst == InitDB /\ DumpInit /\ MergeOff /\ LockInit /\ SstStart /\ WioOff /\ SmOff /\ BlOff /\ IxOff /\ LkOff

NextSst ==
    \/ SstAppend
    \/ SstFinish
    \/ SstSeekToFirst
    \/ SstNext

SpecSst == InitSst /\ [][NextSst]_vars

\* C20: the entries written through the SST writer come back from the
\* iterator, started with seek_to_first, as they were written: the same
\* entries in the same order, each once, without an error, whatever the
\* number of data blocks and index blocks and the restart interval.
C20_SstRoundTrip ==
    /\ sst_pc \notin {"panic", "error"}
    /\ \A i \in 1..Len(sst_it.out) :
          i <= Len(sst_in.entries) /\ sst_it.out[i] = sst_in.entries[i]
    /\ sst_pc = "end" => sst_it.out = sst_in.entries

\* ------------------------------------------------------------------ WAL writer and reader
\* Batches appended to one WAL.
MaxWalBatches == 3

\* The batches a caller can hand to Writer::append, seqs set.
WalBatches ==
    {<<>>} \cup {SetSeqs(BatchEntries(b, 1), 1) : b \in Batches \cup {<<Delete(2)>>}}

\* Entry::encode with keys and values of one byte: key length, key, seq, the
\* tag, and for a put the value length and the value.
EntryLen(e) == IF e.value = NoValue THEN 4 ELSE 6

RECURSIVE EntriesLen(_)
EntriesLen(entries) ==
    IF entries = <<>> THEN 0 ELSE EntryLen(Head(entries)) + EntriesLen(Tail(entries))

\* WriteBatch::encode: checksum (4 bytes), len (4 bytes), the entries; len
\* counts the header too.
RecordLen(entries) == 8 + EntriesLen(entries)

\* The offset at which record i of the file starts.
RECURSIVE RecordStart(_, _)
RecordStart(file, i) ==
    IF i = 1 THEN 0 ELSE RecordStart(file, i - 1) + RecordLen(file[i - 1])

\* The length of the file.
WalFileLen(file) == RecordStart(file, Len(file) + 1)

\* Reader::open: the first 8 bytes of the file are read as the seq of the
\* WAL; fewer than 8 bytes are an error.  Writer::create writes no such bytes.
ReaderOpen(file) ==
    IF WalFileLen(file) < 8 THEN [pc |-> "error", pos |-> 0]
    ELSE [pc |-> "read", pos |-> 8]

\* Reader::next at offset pos: None at the end of the file; an error when
\* fewer than 8 bytes are left; the batch when the 8 bytes are the header of
\* a record; bytes that are no header fail the length or the checksum.
ReaderNext(file, pos) ==
    LET left == WalFileLen(file) - pos
        at == {i \in 1..Len(file) : RecordStart(file, i) = pos}
    IN IF left = 0 THEN [pc |-> "end", pos |-> pos, batch |-> <<>>]
       ELSE IF left < 8 \/ at = {} THEN [pc |-> "error", pos |-> pos, batch |-> <<>>]
       ELSE LET i == CHOOSE j \in at : TRUE
            IN [pc |-> "read", pos |-> pos + RecordLen(file[i]), batch |-> file[i]]

\* Writer::append of the next batch: the encoded batch is written at the end.
WioAppend ==
    /\ wio_pc = "write"
    /\ Len(wio.file) < Len(wio.batches)
    /\ wio' = [wio EXCEPT !.file = Append(@, wio.batches[Len(wio.file) + 1])]
    /\ UNCHANGED wio_pc
    /\ UNCHANGED non_wio_vars

\* Reader::open after the last append.
WioOpen ==
    /\ wio_pc = "write"
    /\ Len(wio.file) = Len(wio.batches)
    /\ LET r == ReaderOpen(wio.file)
       IN wio' = [wio EXCEPT !.pos = r.pos] /\ wio_pc' = r.pc
    /\ UNCHANGED non_wio_vars

\* Reader::next
WioNext ==
    /\ wio_pc = "read"
    /\ LET r == ReaderNext(wio.file, wio.pos)
       IN /\ wio' = [wio EXCEPT !.pos = r.pos,
                                !.out = IF r.pc = "read" THEN Append(@, r.batch) ELSE @]
          /\ wio_pc' = r.pc
    /\ UNCHANGED non_wio_vars

\* Writer::create on a new path, and the batches that will be appended.
WioStart ==
    /\ \E n \in 0..MaxWalBatches : \E bs \in [1..n -> WalBatches] :
          wio = [batches |-> bs, file |-> <<>>, pos |-> 0, out |-> <<>>]
    /\ wio_pc = "write"

InitWio == InitDB /\ DumpInit /\ MergeOff /\ LockInit /\ SstOff /\ WioStart /\ SmOff /\ BlOff /\ IxOff /\ LkOff

NextWio ==
    \/ WioAppend
    \/ WioOpen
    \/ WioNext

SpecWio == InitWio /\ [][NextWio]_vars

\* C21: the batches appended to a new WAL come back from Reader::open and
\* Reader::next as they were written, in order, followed by None; a WAL with
\* no batch reads as zero batches.
C21_WalRoundTrip ==
    /\ wio_pc # "error"
    /\ \A i \in 1..Len(wio.out) :
          i <= Len(wio.batches) /\ wio.out[i] = wio.batches[i]
    /\ wio_pc = "end" => wio.out = wio.batches


\* ------------------------------------------------------------------ reopened with two WALs
\* The DB after DB::new on an existing path (open_db, load_mem_db) whose
\* manifest lists two WALs: the first session wrote two batches, rotated the
\* full WAL 1 to WAL 2 and was dropped before the background thread's minor
\* compaction.  load_mem_db recovers the immutable table from WAL 1;
\* MemDB::new leaves immut_wal None.
InitReopened ==
    /\ db = "open"
    /\ session = 1
    /\ pc = [t \in Writers |-> "idle"]
    /\ req = [t \in Writers |-> <<>>]
    /\ batch = [t \in Writers |-> <<>>]
    /\ new_wal_seq = [t \in Writers |-> NoWal]
    /\ queue = <<>>
    /\ wal_names = {1, 2}
    /\ wal_files = WalAppend(WalAppend(WalCreate(WalCreate(<<>>, 1), 2), 1,
                                       SetSeqs(BatchEntries(<<Put(1)>>, 1), 1)),
                             1, SetSeqs(BatchEntries(<<Put(2), Delete(1)>>, 2), 2))
    /\ sst_files = <<>>
    /\ current = [wals |-> {1, 2}, ssts |-> {}]
    /\ manifest = ManifestLoad
    /\ mut_table = LoadMutTable(ManifestLoad)
    /\ immut_table = LoadImmutTable(ManifestLoad)
    /\ next_seq = LoadNextSeq(ManifestLoad)
    /\ mut_wal = MutWalFileSeq(ManifestLoad)
    /\ immut_wal = NoWal
    /\ bg = "loop"
    /\ minor_sst = <<>>
    /\ request_close = FALSE
    /\ ops = 0
    /\ stamped = {}
    /\ expected = [k \in Keys |-> IF k = 2 THEN ValueOf(2, 1) ELSE NoValue]
    /\ overlapped = FALSE
    /\ acked = SeqToSet(WalEntries(1))

InitReopen ==
    InitReopened /\ DumpInit /\ MergeOff /\ LockInit /\ SstOff /\ WioOff
        /\ SmOff /\ BlOff /\ IxOff /\ LkOff

SpecReopen == InitReopen /\ [][Next]_vars

C23_PublishedIsInMemory ==
    db \in {"open", "closing"} => current = Listing(manifest)


\* What open_db can read of an entry under a published listing: the entry is
\* in a listed WAL that is in the wal directory, or in a listed SST.
Recoverable(e, listing, names, wfiles, sfiles) ==
    \/ \E f \in listing.wals \cap names : e \in SeqToSet(Flatten(wfiles[f]))
    \/ \E g \in DOMAIN sfiles : g[2] \in listing.ssts /\ e \in sfiles[g]

\* The disk after each step of minor_compaction's commit: before rename,
\* after rename, after manifest.dump, after remove_file.
MinorCommitSteps ==
    LET file_seq == manifest.next_file_seq
        wal_seq == RemovedWal(AllocSst(manifest, LEVEL_MIN))
        renamed == SstRename(sst_files, LEVEL_MIN, file_seq, minor_sst[1])
        published == Listing(MinorManifest(manifest))
    IN <<[listing |-> current, names |-> wal_names, wfiles |-> wal_files,
          sfiles |-> sst_files],
         [listing |-> current, names |-> wal_names, wfiles |-> wal_files,
          sfiles |-> renamed],
         [listing |-> published, names |-> wal_names, wfiles |-> wal_files,
          sfiles |-> renamed],
         [listing |-> published, names |-> wal_names \ {wal_seq},
          wfiles |-> wal_files, sfiles |-> renamed]>>

\* C24: during a minor compaction, whatever step a crash cuts it at, the
\* published manifest lists a WAL or an SST that holds each entry of the
\* memtable being drained whose write has returned: the WAL goes only after
\* the manifest that lists the new level-1 SST is published.
C24_DrainedEntriesRecoverable ==
    /\ bg = "minor_dump" =>
          \A e \in immut_table \cap acked :
              Recoverable(e, current, wal_names, wal_files, sst_files)
    /\ bg = "minor_commit" =>
          \A e \in minor_sst[1] \cap acked : \A i \in 1..4 :
              LET d == MinorCommitSteps[i]
              IN Recoverable(e, d.listing, d.names, d.wfiles, d.sfiles)


\* The entries of the listed SSTs.
ListedSstEntries(listing, sfiles) ==
    UNION {sfiles[g] : g \in {h \in DOMAIN sfiles : h[2] \in listing.ssts}}

\* C25: the WAL that minor_compaction's remove_wal takes out of the manifest
\* (the smallest file_seq) is the WAL of the immutable memtable just dumped:
\* it is not the mutable WAL, and every entry in it is in a listed SST once
\* the compaction has committed.
C25_RemovedWalIsDrained ==
    [][(bg = "minor_commit" /\ bg' # "minor_commit") =>
          LET wal_seq == RemovedWal(AllocSst(manifest, LEVEL_MIN))
          IN /\ wal_seq # mut_wal
             /\ wal_seq \in DOMAIN wal_files =>
                   SeqToSet(WalEntries(wal_seq)) \subseteq
                       ListedSstEntries(current', sst_files')]_vars

\* ------------------------------------------------------------------ should_merge
\* SSTs in level and in level + 1 of the manifest should_merge looks at.
MaxThisSsts == 2
MaxNextSsts == 1

\* The entries SstMeta.min_entry and max_entry are drawn from, in Entry's order.
SmEntries == 1..3

\* SstMeta: min_entry <= max_entry.
SstMetas == {m \in [min_entry : SmEntries, max_entry : SmEntries] :
                m.min_entry <= m.max_entry}

\* The files of the two levels: <<0, i>> is the i-th SST of level, <<1, i>>
\* the i-th of level + 1.
SmThis(i) == <<0, i>>
SmNext(i) == <<1, i>>
SmAll(in) == {SmThis(i) : i \in DOMAIN in.this} \cup {SmNext(i) : i \in DOMAIN in.next}
SmMeta(in, f) == IF f[1] = 0 THEN in.this[f[2]] ELSE in.next[f[2]]

\* The SSTs in the order one pass visits them: the keys of level + 1, then
\* the keys of level.
SmOrder(in) ==
    [i \in DOMAIN in.next |-> SmNext(i)] \o [i \in DOMAIN in.this |-> SmThis(i)]

Min2(a, b) == IF a <= b THEN a ELSE b

\* The body of one of the two for loops, for the SST f: the test of the two
\* ends of the SST against [min_entry, max_entry], the insert, and the
\* update of min_entry and max_entry, which is made for every SST visited.
SmVisit(s, in, f) ==
    LET sst_min_entry == SmMeta(in, f).min_entry
        sst_max_entry == SmMeta(in, f).max_entry
        hit == \/ (sst_min_entry >= s.min_entry /\ sst_min_entry <= s.max_entry)
               \/ (sst_max_entry >= s.min_entry /\ sst_max_entry <= s.max_entry)
        new == hit /\ f \notin s.files
    IN [files |-> IF new THEN s.files \cup {f} ELSE s.files,
        this_level_file_seqs |->
            IF new /\ f[1] = 0 THEN Append(s.this_level_file_seqs, f)
            ELSE s.this_level_file_seqs,
        next_level_file_seqs |->
            IF new /\ f[1] = 1 THEN Append(s.next_level_file_seqs, f)
            ELSE s.next_level_file_seqs,
        changed |-> s.changed \/ new,
        min_entry |-> Min2(s.min_entry, sst_min_entry),
        max_entry |-> Min2(s.max_entry, sst_max_entry),
        passes |-> s.passes,
        visited |-> s.visited + 1]

\* A loop test that never sees the pass that adds nothing.
SmChangedAlways(s) == TRUE
\* if !changed { break; }
SmChanged(s) == s.changed

\* should_merge up to its loop.
SmEnter(in) ==
    [files |-> {SmThis(in.seed)},
     min_entry |-> in.this[in.seed].min_entry,
     max_entry |-> in.this[in.seed].max_entry,
     this_level_file_seqs |-> <<SmThis(in.seed)>>,
     next_level_file_seqs |-> <<>>,
     changed |-> FALSE,
     passes |-> 0,
     visited |-> 0]

\* The passes a run is followed for.
SmPassLimit == Cardinality(SmAll(sm_in)) + 2

\* loop { let mut changed = false;
SmLoop ==
    /\ sm_pc = "loop"
    /\ sm.passes < SmPassLimit
    /\ sm' = [sm EXCEPT !.changed = FALSE, !.passes = @ + 1, !.visited = 0]
    /\ sm_pc' = "for"
    /\ UNCHANGED sm_in
    /\ UNCHANGED non_sm_vars

\* The two for loops, one SST at a time.
SmFor ==
    /\ sm_pc = "for"
    /\ sm.visited < Len(SmOrder(sm_in))
    /\ sm' = SmVisit(sm, sm_in, SmOrder(sm_in)[sm.visited + 1])
    /\ UNCHANGED <<sm_in, sm_pc>>
    /\ UNCHANGED non_sm_vars

\* if !changed { break; } and Ok((files, this_level_file_seqs,
\* next_level_file_seqs))
SmBreak ==
    /\ sm_pc = "for"
    /\ sm.visited = Len(SmOrder(sm_in))
    /\ sm_pc' = IF SmChanged(sm) THEN "loop" ELSE "done"
    /\ UNCHANGED <<sm_in, sm>>
    /\ UNCHANGED non_sm_vars

\* should_merge is about to be called.
SmStart ==
    /\ sm_in = [this |-> <<>>, next |-> <<>>, seed |-> 0]
    /\ sm = SmNoLocals
    /\ sm_pc = "call"

\* should_merge(db_path, level, file_seq) on a manifest with SstMetas in
\* level and level + 1, file_seq an SST of level; the call up to its loop.
SmCall ==
    /\ sm_pc = "call"
    /\ \E n \in 1..MaxThisSsts, k \in 0..MaxNextSsts :
          \E this \in [1..n -> SstMetas], next \in [1..k -> SstMetas], seed \in 1..n :
              /\ sm_in' = [this |-> this, next |-> next, seed |-> seed]
              /\ sm' = SmEnter([this |-> this, next |-> next, seed |-> seed])
    /\ sm_pc' = "loop"
    /\ UNCHANGED non_sm_vars

InitShould ==
    InitDB /\ DumpInit /\ MergeOff /\ LockInit /\ SstOff /\ WioOff /\ SmStart
        /\ BlOff /\ IxOff /\ LkOff

\* The steps of a call that has begun.
SmRun ==
    \/ SmLoop
    \/ SmFor
    \/ SmBreak

NextShould ==
    \/ SmCall
    \/ SmRun

SpecShould == InitShould /\ [][NextShould]_vars

\* A call that has begun runs on: the thread in should_merge is not held up.
FairSpecShould == SpecShould /\ WF_vars(SmRun)

\* [min_entry, max_entry] of an SST meets [lo, hi].
SmIntersects(m, lo, hi) == m.min_entry <= hi /\ m.max_entry >= lo

\* The overlap closure of a set of SSTs: the SSTs of the two levels that meet
\* the range the set spans are added until none is left to add.
RECURSIVE SmClosure(_, _)
SmClosure(in, S) ==
    LET lo == SetMin({SmMeta(in, f).min_entry : f \in S})
        hi == SetMax({SmMeta(in, f).max_entry : f \in S})
        T == S \cup {f \in SmAll(in) : SmIntersects(SmMeta(in, f), lo, hi)}
    IN IF T = S THEN S ELSE SmClosure(in, T)

\* C26: should_merge returns the overlap closure of the seed: the seed and
\* every SST of level or level + 1 whose [min_entry, max_entry] meets the
\* running range, one that strictly contains the range included, and no
\* other; the two file_seq lists name the included SSTs of each level.
C26_OverlapClosure ==
    sm_pc = "done" =>
        /\ sm.files = SmClosure(sm_in, {SmThis(sm_in.seed)})
        /\ SeqToSet(sm.this_level_file_seqs) = {f \in sm.files : f[1] = 0}
        /\ SeqToSet(sm.next_level_file_seqs) = {f \in sm.files : f[1] = 1}


\* C27: should_merge terminates on every manifest: a pass that adds no SST
\* comes within as many passes as level and level + 1 hold SSTs, and the
\* call returns.
C27_ShouldMergeTerminates ==
    /\ [](sm_pc \in {"loop", "for", "done"} =>
             sm.passes <= Cardinality(SmAll(sm_in)))
    /\ (sm_pc = "loop") ~> (sm_pc = "done")

\* A call that returned after as many passes as there are SSTs: every pass
\* but the last added one.
C27_Witness ==
    /\ sm_pc = "done"
    /\ sm.passes = Cardinality(SmAll(sm_in))
    /\ sm.passes >= 3

\* ------------------------------------------------------------------ background loop
\* limit.rs is not in src/: the loop is followed for LEVEL_MAX in 2..MaxLevelMax.
MaxLevelMax == 3
\* Iterations of the loop that are followed.
MaxBgIters == 2

RECURSIVE SumSeq(_)
SumSeq(q) == IF q = <<>> THEN 0 ELSE Head(q) + SumSeq(Tail(q))

\* let size_max = wal_size_limit * 5_u64.pow(level as u32)
SizeMax(level) == WalSizeLimit * Pow5(level)

\* manifest.level_sst_count(level) > 6 || manifest.level_size(level) > size_max
OverLimit(sstables, level) ==
    Len(sstables[level]) > 6 \/ SumSeq(sstables[level]) > SizeMax(level)

\* A scan without the break: the last level over its limit.
TargetLevelLast(sstables, level_max) ==
    LET due == {l \in LEVEL_MIN..level_max : OverLimit(sstables, l)}
    IN IF due = {} THEN 0 ELSE SetMax(due)
\* get_merger: for level in LEVEL_MIN..=LEVEL_MAX { .. target_level = level;
\* break; }, target_level 0 when no level is over its limit.
TargetLevel(sstables, level_max) ==
    LET due == {l \in LEVEL_MIN..level_max : OverLimit(sstables, l)}
    IN IF due = {} THEN 0 ELSE SetMin(due)

\* A merger that writes into the level it reads.
MergerLevelSame(target_level) == target_level
\* let level = target_level + 1
MergerLevel(target_level) == target_level + 1

\* get_merger: None when target_level is 0 or LEVEL_MAX; else the merger over
\* this_n SSTs of target_level and next_n of the next level, as should_merge
\* names them, with the first output file open.
GetMerger(sstables, level_max, this_n, next_n) ==
    LET target_level == TargetLevel(sstables, level_max)
    IN IF target_level = 0 \/ target_level = level_max THEN NoMerger
       ELSE [level |-> MergerLevel(target_level), this_n |-> this_n,
             next_n |-> next_n, writers |-> 1]

\* The SSTs should_merge can name: the seed alone or the whole level, none or
\* all of the next level.
MergerInputs(sstables, level_max) ==
    LET target_level == TargetLevel(sstables, level_max)
    IN IF target_level = 0 \/ target_level = level_max THEN {<<0, 0>>}
       ELSE {1, Len(sstables[target_level])}
                \X {0, Len(sstables[target_level + 1])}

\* A step that lets the merger run whether or not has_immut() holds.
AfterHasImmutMergeFirst(has_immut, merger) ==
    IF merger # NoMerger THEN "merge"
    ELSE IF has_immut THEN "minor" ELSE "get_merger"
\* if mem_db.has_immut() { minor_compaction(..)?; continue; }
\* if merger_state.is_none() { merger_state = get_merger(..)?; }
AfterHasImmut(has_immut, merger) ==
    IF has_immut THEN "minor"
    ELSE IF merger = NoMerger THEN "get_merger" ELSE "merge"

\* MergeResult::Finish: alloc_sst(state.level) for major_seqs = [1], the
\* output file holding what the inputs hold up to its size limit; remove_sst
\* of the inputs of level - 1 and of level.
FinishCommit(sstables, merger) ==
    LET level == merger.level
        this == sstables[level - 1]
        next == sstables[level]
        size == SumSeq(SubSeq(this, 1, merger.this_n))
                    + SumSeq(SubSeq(next, 1, merger.next_n))
        out == Min2(size, WalSizeLimit * Pow5(level - 1))
    IN [sstables EXCEPT
          ![level - 1] = SubSeq(this, merger.this_n + 1, Len(this)),
          ![level] = Append(SubSeq(next, merger.next_n + 1, Len(next)), out)]

\* The SSTs a level holds when the DB is opened: none, six or seven small
\* ones, one at the size limit, one above it.
LevelSsts(level) ==
    {<<>>, [i \in 1..6 |-> 1], [i \in 1..7 |-> 1],
     <<SizeMax(level)>>, <<SizeMax(level) + 1>>}

\* DB::new is about to start the background thread.
BlStart ==
    /\ bl = BlNew
    /\ bl_pc = "start"

\* DB::new: the manifest that was loaded, thread::spawn(background_thread).
BlSpawn ==
    /\ bl_pc = "start"
    /\ \E level_max \in 2..MaxLevelMax :
          \E sstables \in [1..level_max -> UNION {LevelSsts(l) : l \in 1..level_max}] :
              /\ \A l \in 1..level_max : sstables[l] \in LevelSsts(l)
              /\ bl' = [bl EXCEPT !.level_max = level_max, !.sstables = sstables]
    /\ bl_pc' = "loop"
    /\ UNCHANGED non_bl_vars

\* The top of the loop: if *request_close { .. break; }
BlLoop ==
    /\ bl_pc = "loop"
    /\ IF bl.request_close
       THEN /\ bl' = [bl EXCEPT !.request_close = FALSE]
            /\ bl_pc' = "exited"
       ELSE /\ bl.iters < MaxBgIters
            /\ bl' = [bl EXCEPT !.iters = @ + 1, !.checked = FALSE]
            /\ bl_pc' = "has_immut"
    /\ UNCHANGED non_bl_vars

\* if mem_db.has_immut() .. if merger_state.is_none() ..
BlHasImmut ==
    /\ bl_pc = "has_immut"
    /\ bl' = [bl EXCEPT !.checked = bl.has_immut]
    /\ bl_pc' = AfterHasImmut(bl.has_immut, bl.merger)
    /\ UNCHANGED non_bl_vars

\* minor_compaction: immut_wal = None, an SST the size of a WAL in level 1;
\* continue.
BlMinor ==
    /\ bl_pc = "minor"
    /\ bl' = [bl EXCEPT !.has_immut = FALSE,
                        !.sstables[LEVEL_MIN] = Append(@, WalSizeLimit)]
    /\ bl_pc' = "loop"
    /\ UNCHANGED non_bl_vars

\* merger_state = get_merger(..)?; without a merger the thread goes on to
\* wait_immut.
BlGetMerger ==
    /\ bl_pc = "get_merger"
    /\ \E n \in MergerInputs(bl.sstables, bl.level_max) :
          LET merger == GetMerger(bl.sstables, bl.level_max, n[1], n[2])
          IN /\ bl' = [bl EXCEPT !.merger = merger]
             /\ bl_pc' = IF merger # NoMerger THEN "merge" ELSE "wait"
    /\ UNCHANGED non_bl_vars

\* match state.merger.merge()? { Full .. Finish .. Timeout .. }; continue.
BlMerge ==
    /\ bl_pc = "merge"
    /\ \/ /\ bl.merger.writers < 2
          /\ bl' = [bl EXCEPT !.merger.writers = @ + 1]
       \/ bl' = [bl EXCEPT !.sstables = FinishCommit(bl.sstables, bl.merger),
                           !.committed = bl.merger.level,
                           !.merger = NoMerger]
       \/ bl' = bl
    /\ bl_pc' = "loop"
    /\ UNCHANGED non_bl_vars

\* if mem_db.wait_immut() { merger_state = get_merger(..)?; }: wait_immut
\* returns false once immut_wal is Some, true when the second is over.
BlWaitImmut ==
    /\ bl_pc = "wait"
    /\ \/ /\ bl.has_immut
          /\ bl' = bl
       \/ \E n \in MergerInputs(bl.sstables, bl.level_max) :
             bl' = [bl EXCEPT
                      !.merger = GetMerger(bl.sstables, bl.level_max, n[1], n[2])]
    /\ bl_pc' = "loop"
    /\ UNCHANGED non_bl_vars

\* A writer's MemDB::freeze: immut_wal = Some(wal).
BlFreeze ==
    /\ bl_pc \notin {"off", "start", "exited"}
    /\ ~bl.has_immut
    /\ bl' = [bl EXCEPT !.has_immut = TRUE]
    /\ UNCHANGED bl_pc
    /\ UNCHANGED non_bl_vars

\* impl Drop for DB: *request_close = true.
BlDrop ==
    /\ bl_pc \notin {"off", "start", "exited"}
    /\ ~bl.dropped
    /\ bl' = [bl EXCEPT !.request_close = TRUE, !.dropped = TRUE]
    /\ UNCHANGED bl_pc
    /\ UNCHANGED non_bl_vars

InitBg ==
    InitDB /\ DumpInit /\ MergeOff /\ LockInit /\ SstOff /\ WioOff /\ SmOff
        /\ BlStart /\ IxOff /\ LkOff

NextBg ==
    \/ BlSpawn
    \/ BlLoop
    \/ BlHasImmut
    \/ BlMinor
    \/ BlGetMerger
    \/ BlMerge
    \/ BlWaitImmut
    \/ BlFreeze
    \/ BlDrop

SpecBg == InitBg /\ [][NextBg]_vars

\* C28: get_merger returns a merger exactly when a level in 1..LEVEL_MAX-1
\* has more than 6 SSTs or more than wal_size_limit * 5^level bytes, and the
\* merger reads the lowest such level; with no such level it returns None,
\* whatever level LEVEL_MAX holds.
C28_LowestLevelOverLimit ==
    [][LET due == {l \in 1..(bl.level_max - 1) : OverLimit(bl.sstables, l)}
       IN /\ (bl_pc = "get_merger" /\ bl_pc' # "get_merger") =>
                 /\ (bl'.merger # NoMerger) <=> (due # {})
                 /\ due # {} => bl'.merger.level - 1 = SetMin(due)
          /\ (bl_pc = "wait" /\ bl_pc' # "wait" /\ bl'.merger # NoMerger) =>
                 /\ due # {}
                 /\ bl'.merger.level - 1 = SetMin(due)]_vars

\* get_merger took level 2 of three: level 1 is within its limits.
C28_Witness ==
    /\ bl.merger # NoMerger
    /\ bl.merger.level = 3
    /\ OverLimit(bl.sstables, 3)


\* C29 as stated: level 0 and LEVEL_MAX are never the output level of a
\* merger, and no commit of a major compaction adds an SST to level
\* LEVEL_MAX.
C29_OutputNeverLevelMax ==
    /\ bl.merger # NoMerger => bl.merger.level \notin {0, bl.level_max}
    /\ bl.committed # 0 => bl.committed # bl.level_max

\* C29 amended: level 0 and LEVEL_MAX are never the input level of a merger;
\* the output level is the input level + 1, in LEVEL_MIN+1..LEVEL_MAX, and a
\* commit adds its SST to that level only, so never to level 0 or LEVEL_MIN.
C29_InputNeverLevelMax ==
    /\ bl.merger # NoMerger =>
          /\ bl.merger.level - 1 \in LEVEL_MIN..(bl.level_max - 1)
          /\ bl.merger.level \in (LEVEL_MIN + 1)..bl.level_max
    /\ bl.committed # 0 => bl.committed \in (LEVEL_MIN + 1)..bl.level_max

\* A major compaction has committed an SST to level LEVEL_MAX.
C29_Witness ==
    /\ bl.committed # 0
    /\ bl.committed = bl.level_max
    /\ bl.sstables[bl.level_max] # <<>>

\* An iteration of the loop, from its steps: the next step of each place in
\* the loop, and whether the step is one of a major compaction.
MajorStep ==
    \/ bl_pc = "get_merger" /\ bl_pc' # "get_merger"
    \/ bl_pc = "merge" /\ bl_pc' # "merge"
    \/ bl_pc = "wait" /\ bl_pc' # "wait" /\ bl'.merger # bl.merger

\* C30: each iteration of the background loop checks the close request
\* first, and when has_immut() holds it runs the minor compaction and goes
\* back to the top: no merger is made or stepped in an iteration that found
\* has_immut() true.
C30_MinorBeforeMajor ==
    [][/\ (bl_pc # "has_immut" /\ bl_pc' = "has_immut") =>
              (bl_pc = "loop" /\ ~bl.request_close)
       /\ (bl_pc = "has_immut" /\ bl_pc' # "has_immut" /\ bl.has_immut) =>
              bl_pc' = "minor"
       /\ (bl_pc = "minor" /\ bl_pc' # "minor") => bl_pc' = "loop"
       /\ MajorStep => ~bl.checked]_vars

\* The thread holds a merger and finds has_immut() true: it is at the minor
\* compaction.
C30_Witness ==
    /\ bl_pc = "minor"
    /\ bl.checked
    /\ bl.merger # NoMerger


\* ------------------------------------------------------------------ writes after the background thread ended
\* The DB of the first session after two writes filled WAL 1, the second
\* write rotated it to WAL 2 (new_wal, freeze, dump) and returned, and the
\* background thread's minor_compaction returned Err: the thread has ended on
\* the closure's unwrap, after background_thread dropped its guards.
\* in_commit = FALSE: Writer::new or MemTable::dump failed, immut_wal is still
\* Some.  in_commit = TRUE: rename failed, after mem_db.dump set immut_wal to
\* None and alloc_sst entered the SST in the manifest.
InitBgFailed(in_commit) ==
    /\ db = "open"
    /\ session = 1
    /\ pc = [t \in Writers |-> "idle"]
    /\ req = [t \in Writers |-> <<>>]
    /\ batch = [t \in Writers |-> <<>>]
    /\ new_wal_seq = [t \in Writers |-> NoWal]
    /\ queue = <<>>
    /\ wal_names = {1, 2}
    /\ wal_files = WalAppend(WalAppend(WalCreate(WalCreate(<<>>, 1), 2), 1,
                                       SetSeqs(BatchEntries(<<Put(1)>>, 1), 1)),
                             1, SetSeqs(BatchEntries(<<Put(2), Delete(1)>>, 2), 2))
    /\ sst_files = <<>>
    /\ current = Listing(AllocWal(AllocWal(ManifestNew)))
    /\ mut_table = {}
    /\ next_seq = 4
    /\ mut_wal = 2
    /\ IF in_commit
       THEN /\ manifest = AllocSst(AllocWal(AllocWal(ManifestNew)), LEVEL_MIN)
            /\ immut_table = MemTableDump(ReadWalTable(1)).immut_table
            /\ minor_sst = <<MemTableDump(ReadWalTable(1)).sst>>
            /\ immut_wal = NoWal
       ELSE /\ manifest = AllocWal(AllocWal(ManifestNew))
            /\ immut_table = ReadWalTable(1)
            /\ minor_sst = <<>>
            /\ immut_wal = 1
    /\ bg = "failed"
    /\ request_close = FALSE
    /\ ops = 0
    /\ stamped = {1, 2, 3}
    /\ expected = [k \in Keys |-> IF k = 2 THEN ValueOf(2, 1) ELSE NoValue]
    /\ overlapped = FALSE
    /\ acked = SeqToSet(WalEntries(1))

InitFailed ==
    /\ \E in_commit \in BOOLEAN : InitBgFailed(in_commit)
    /\ DumpInit /\ MergeOff /\ LockInit /\ SstOff /\ WioOff /\ SmOff /\ BlOff
    /\ IxOff /\ LkOff

\* The threads left once the background thread has ended: the writers, and
\* the owner dropping the DB.
NextFailed ==
    \/ \E t \in Writers : Write(t)
    \/ Drop

SpecFailed == InitFailed /\ [][NextFailed]_vars

FairSpecFailed == SpecFailed /\ \A t \in Writers : WF_vars(Write(t))

\* C31: once the background thread has ended on an error, a DB::write that
\* reaches MemDB::freeze does not stay there: the call returns to its caller.
C31_WriteAfterBgErrorReturns ==
    \A t \in Writers : (bg = "failed" /\ pc[t] = "freeze") ~> (pc[t] = "idle")


\* ------------------------------------------------------------------ WAL bytes
\* Batches appended to the WAL that is read back byte by byte.
MaxWbBatches == 2
\* Entries of one such batch.
MaxWbEntries == 2

\* Key::encode of the keys written: a one-byte key, and the u64 key 1 in
\* eight big-endian bytes.
WbKeys == {<<1>>, <<0, 0, 0, 0, 0, 0, 0, 1>>}
\* Value::encode of the value written.
WbValue == <<7>>

\* The entries a batch can hold: a put or a delete of a key (seq set on encode).
WbEntries == {[key |-> k, put |-> p] : k \in WbKeys, p \in BOOLEAN}
WbBatches == UNION {[1..n -> WbEntries] : n \in 1..MaxWbEntries}

\* append_fixed_u32 / decode_fixed_u32: four bytes, least significant first.
EncodeFixedU32(v) ==
    <<v % 256, (v \div 256) % 256, (v \div 65536) % 256, (v \div 16777216) % 256>>
\* A value of 2^31 or more reads as 2^31 - 1, the largest integer at hand:
\* it is a len longer than every file here.
DecodeFixedU32(b) ==
    IF b[4] >= 128 THEN 2147483647
    ELSE b[1] + 256 * b[2] + 65536 * b[3] + 16777216 * b[4]

\* crc32_checksum: a value computed from every byte and its place, kept to
\* 31 bits.
RECURSIVE ByteSum(_, _)
ByteSum(bytes, i) ==
    IF i > Len(bytes) THEN 0 ELSE (i + 1) * bytes[i] + ByteSum(bytes, i + 1)
Crc32Checksum(bytes) == (Len(bytes) + 31 * ByteSum(bytes, 1)) % 2147483647

\* Entry::encode: var u32 key length, key, var u64 seq, then 1, var u32 value
\* length and the value of a put, or 2 for a delete.
EntryEncode(e, seq) ==
    <<Len(e.key)>> \o e.key \o <<seq>>
        \o (IF e.put THEN <<1, Len(WbValue)>> \o WbValue ELSE <<2>>)

RECURSIVE EntriesEncode(_, _)
EntriesEncode(entries, seq) ==
    IF entries = <<>> THEN <<>>
    ELSE EntryEncode(Head(entries), seq) \o EntriesEncode(Tail(entries), seq + 1)

\* WriteBatch::encode: two zeroed u32, the entries, then len (the header
\* included) at 4..8 and the checksum of the whole buffer at 0..4.
WriteBatchEncode(entries, seq) ==
    LET body == EntriesEncode(entries, seq)
        len == EncodeFixedU32(8 + Len(body))
    IN EncodeFixedU32(Crc32Checksum(<<0, 0, 0, 0>> \o len \o body)) \o len \o body

\* File::read into a buffer of n bytes at pos: the bytes that are there.
FileRead(file, pos, n) ==
    SubSeq(file, pos + 1, IF n >= Len(file) - pos THEN Len(file) ELSE pos + n)

\* Reader::open on the bytes of the file.
ReaderOpenBytes(file) ==
    IF Len(FileRead(file, 0, 8)) # 8 THEN [pc |-> "corruption", pos |-> 0]
    ELSE [pc |-> "read", pos |-> 8]

\* Reader::next at pos.  `vec![0; len]` followed by wb_buf[4..8] panics when
\* the len read from the header is under 8.  The two checksums are compared
\* as their four bytes.
ReaderNextBytes(file, pos) ==
    LET buf == FileRead(file, pos, 8)
        checksum == SubSeq(buf, 1, 4)
        len == DecodeFixedU32(SubSeq(buf, 5, 8))
        body == FileRead(file, pos + 8, len - 8)
        wb_buf == <<0, 0, 0, 0>> \o SubSeq(buf, 5, 8) \o body
    IN IF Len(buf) = 0 THEN [pc |-> "end", pos |-> pos, body |-> <<>>]
       ELSE IF Len(buf) < 8 THEN [pc |-> "corruption", pos |-> pos, body |-> <<>>]
       ELSE IF len < 8 THEN [pc |-> "panic", pos |-> pos, body |-> <<>>]
       ELSE IF Len(body) # len - 8
            THEN [pc |-> "corruption", pos |-> pos + 8 + Len(body), body |-> <<>>]
       ELSE IF checksum # EncodeFixedU32(Crc32Checksum(wb_buf))
            THEN [pc |-> "checksum", pos |-> pos + len, body |-> <<>>]
       ELSE [pc |-> "read", pos |-> pos + len, body |-> body]

\* Writer::create on a new path, and the batches the session will append.
WbStart ==
    /\ \E n \in 1..MaxWbBatches : \E bs \in [1..n -> WbBatches] :
          wio = [batches |-> bs, appended |-> 0, seq |-> 1, file |-> <<>>,
                 pos |-> 0, out |-> <<>>, cut |-> FALSE]
    /\ wio_pc = "write"

\* Writer::append of the next batch: the encoded batch goes to the end.
WbAppend ==
    /\ wio_pc = "write"
    /\ wio.appended < Len(wio.batches)
    /\ LET entries == wio.batches[wio.appended + 1]
       IN wio' = [wio EXCEPT !.file = @ \o WriteBatchEncode(entries, wio.seq),
                             !.appended = @ + 1,
                             !.seq = @ + Len(entries)]
    /\ UNCHANGED wio_pc
    /\ UNCHANGED non_wio_vars

\* The DB is dropped after the last append.
WbClose ==
    /\ wio_pc = "write"
    /\ wio.appended = Len(wio.batches)
    /\ wio_pc' = "closed"
    /\ UNCHANGED wio
    /\ UNCHANGED non_wio_vars

\* The closed WAL loses its last byte, which is a byte of its last record.
WbTruncate ==
    /\ wio_pc = "closed"
    /\ ~wio.cut
    /\ wio' = [wio EXCEPT !.file = SubSeq(@, 1, Len(@) - 1), !.cut = TRUE]
    /\ UNCHANGED wio_pc
    /\ UNCHANGED non_wio_vars

\* read_wal: Reader::open
WbOpen ==
    /\ wio_pc = "closed"
    /\ LET r == ReaderOpenBytes(wio.file)
       IN wio' = [wio EXCEPT !.pos = r.pos] /\ wio_pc' = r.pc
    /\ UNCHANGED non_wio_vars

\* read_wal: one turn of the loop, reader.next()?
WbNext ==
    /\ wio_pc = "read"
    /\ LET r == ReaderNextBytes(wio.file, wio.pos)
       IN /\ wio' = [wio EXCEPT !.pos = r.pos,
                                !.out = IF r.pc = "read" THEN Append(@, r.body) ELSE @]
          /\ wio_pc' = r.pc
    /\ UNCHANGED non_wio_vars

InitWb ==
    InitDB /\ DumpInit /\ MergeOff /\ LockInit /\ SstOff /\ WbStart /\ SmOff
        /\ BlOff /\ IxOff /\ LkOff

NextWb ==
    \/ WbAppend
    \/ WbClose
    \/ WbTruncate
    \/ WbOpen
    \/ WbNext

SpecWb == InitWb /\ [][NextWb]_vars

\* read_wal has returned: Ok at None, or the error of open or next, or it
\* has panicked.
WbReturned == wio_pc \in {"end", "corruption", "checksum", "panic"}

\* C32: Reader::next returns None only with no byte left, and read_wal of a
\* WAL that lost the last byte of its last record returns the WAL corruption
\* error (so DB::new on it fails with that error).
C32_TruncatedWalIsCorruption ==
    /\ wio_pc = "end" => wio.pos = Len(wio.file)
    /\ (wio.cut /\ WbReturned) => wio_pc = "corruption"


\* ------------------------------------------------------------------ index-block iterator
\* Data blocks of the SST: 1..MaxDataBlocks.
MaxDataBlocks == 8
\* Offsets in one index block: 1..MaxOffsetCount, block_size = 8, 16, ... bytes
\* more than that.
MaxOffsetCount == 3

\* Writer.data_block_offsets of an SST of n data blocks, here of 10 bytes each.
DataBlockOffsets(n) == [k \in 1..n |-> 10 * (k - 1)]

\* The SstMeta and the index blocks Writer::finish leaves for n data blocks.
IxFile(n, block_size) ==
    LET data_block_end == 10 * n
        index_block_start ==
            IF data_block_end % block_size # 0
            THEN (data_block_end \div block_size + 1) * block_size
            ELSE data_block_end
        index == BuildIndexBlocks(DataBlockOffsets(n), block_size)
    IN [blocks |-> index,
        meta |-> [data_block_end |-> data_block_end,
                  data_block_count |-> n,
                  index_block_start |-> index_block_start,
                  index_block_end |-> index_block_start + Len(index) * block_size]]

\* index_block::Iterator::new
IxNew(n, block_size) ==
    [meta |-> IxFile(n, block_size).meta, block_size |-> block_size,
     blocks |-> IxFile(n, block_size).blocks,
     index_block_offset |-> IxFile(n, block_size).meta.index_block_start,
     index_block |-> <<>>, index_block_index |-> 0, out |-> <<>>]

\* seek and read of block_size bytes at offset: the index block there, or
\* <<>> when the file ends before block_size bytes were read.
IxRead(it, offset) ==
    LET i == (offset - it.meta.index_block_start) \div it.block_size + 1
    IN IF i \in 1..Len(it.blocks) THEN it.blocks[i] ELSE <<>>

\* index_block::Iterator::seek_to_first
IxSeekToFirst(it) ==
    LET block == IxRead(it, it.meta.index_block_start)
        offset_count == Min2(it.meta.data_block_count, it.block_size \div 8 - 1)
    IN IF block = <<>> THEN [it |-> it, pc |-> "corruption"]
       ELSE [it |-> [it EXCEPT !.index_block = SubSeq(block, 1, offset_count),
                               !.index_block_offset = it.meta.index_block_start,
                               !.index_block_index = 0],
             pc |-> "iter"]

\* The last index block read by next holds data_block_count % offset_count
\* offsets.
IxLastCount(data_block_count, offset_count) == data_block_count % offset_count

\* index_block::Iterator::next; index_block_index counts from 0.
\* self.index_block[0] panics when the block that was read holds no offset.
IxNextRange(it) ==
    LET i == it.index_block_index
        start == it.index_block[i + 1]
        offset == it.index_block_offset + it.block_size
        block == IxRead(it, offset)
        offset_count ==
            IF offset + it.block_size = it.meta.index_block_end
            THEN IxLastCount(it.meta.data_block_count, it.block_size \div 8 - 1)
            ELSE it.block_size \div 8 - 1
        moved == [it EXCEPT !.index_block_offset = offset]
        loaded == [moved EXCEPT !.index_block = SubSeq(block, 1, offset_count),
                                !.index_block_index = 0]
    IN IF i = Len(it.index_block)
       THEN [it |-> it, pc |-> "none", range |-> <<>>]
       ELSE IF i < Len(it.index_block) - 1
       THEN [it |-> [it EXCEPT !.index_block_index = i + 1], pc |-> "iter",
             range |-> <<start, it.index_block[i + 2]>>]
       ELSE IF it.index_block_offset + it.block_size = it.meta.index_block_end
       THEN [it |-> [it EXCEPT !.index_block_index = i + 1], pc |-> "iter",
             range |-> <<start, it.meta.data_block_end>>]
       ELSE IF block = <<>>
       THEN [it |-> moved, pc |-> "corruption", range |-> <<>>]
       ELSE IF loaded.index_block = <<>>
       THEN [it |-> loaded, pc |-> "panic", range |-> <<>>]
       ELSE [it |-> loaded, pc |-> "iter", range |-> <<start, loaded.index_block[1]>>]

\* Iterator::new on the SstMeta of an SST the writer finished.
IxStart ==
    /\ \E n \in 1..MaxDataBlocks : \E c \in 1..MaxOffsetCount :
          ix = IxNew(n, 8 * (c + 1))
    /\ ix_pc = "new"

\* The caller's seek_to_first.
IxSeek ==
    /\ ix_pc = "new"
    /\ LET r == IxSeekToFirst(ix)
       IN ix' = r.it /\ ix_pc' = r.pc
    /\ UNCHANGED non_ix_vars

\* The caller's next; after None it calls no more.
IxNext ==
    /\ ix_pc = "iter"
    /\ LET r == IxNextRange(ix)
       IN /\ ix' = [r.it EXCEPT !.out = IF r.range = <<>> THEN @ ELSE Append(@, r.range)]
          /\ ix_pc' = r.pc
    /\ UNCHANGED non_ix_vars

InitIx ==
    InitDB /\ DumpInit /\ MergeOff /\ LockInit /\ SstOff /\ WioOff /\ SmOff
        /\ BlOff /\ IxStart /\ LkOff

NextIx ==
    \/ IxSeek
    \/ IxNext

SpecIx == InitIx /\ [][NextIx]_vars

\* Range k of an SST of the data blocks at offs that end at data_block_end.
IxRange(offs, data_block_end, k) ==
    <<offs[k], IF k = Len(offs) THEN data_block_end ELSE offs[k + 1]>>

\* C33: after seek_to_first, next yields the ranges of the data blocks in
\* file order, each ending where the next starts and the last at
\* data_block_end, then None after data_block_count of them; it never fails
\* on a file the writer finished, whatever data_block_count and block_size.
C33_IndexRangesInOrder ==
    LET n == ix.meta.data_block_count
    IN /\ ix_pc \notin {"panic", "corruption"}
       /\ \A k \in 1..Len(ix.out) :
             k <= n /\ ix.out[k] = IxRange(DataBlockOffsets(n), ix.meta.data_block_end, k)
       /\ ix_pc = "none" => Len(ix.out) = n


\* ------------------------------------------------------------------ data block lookup
\* What Filter::may_match answers: no filter is configured ("none"); a filter
\* that matches the keys added to it and no other ("exact"); a filter that
\* matches every key ("all").
FilterKinds == {"none", "exact", "all"}

\* SharePrefixEntry::new for key against prev_key.
SharePrefixEntryNew(e, prev_key) ==
    LET n == SharedLen(e.key, prev_key)
    IN [shared_len |-> n, unshared_key |-> SubSeq(e.key, n + 1, Len(e.key)),
        seq |-> e.seq, value |-> e.value]

\* SharePrefixEntry::decode: <<>> (None) when shared_len exceeds prev_key.
SharePrefixEntryDecode(s, prev_key) ==
    IF s.shared_len > Len(prev_key) THEN <<>>
    ELSE <<[key |-> SubSeq(prev_key, 1, s.shared_len) \o s.unshared_key,
            seq |-> s.seq, value |-> s.value]>>

\* data_block::Builder::append.  The first entry becomes min_entry and the
\* call returns; it is neither encoded into entries nor added to the filter.
\* A restart point is the length of entries, here in encoded entries.
DbBuilderAppend(b, e, restart_interval) ==
    IF b.min_entry = <<>> THEN [b EXCEPT !.min_entry = <<e>>]
    ELSE LET restart == b.restart_index = 0
             prev_key == IF restart THEN <<>> ELSE b.prev_key
         IN [entries |-> Append(b.entries, SharePrefixEntryNew(e, prev_key)),
             restart_points |->
                 IF restart THEN Append(b.restart_points, Len(b.entries))
                 ELSE b.restart_points,
             restart_index |-> (b.restart_index + 1) % restart_interval,
             filter |-> b.filter \cup {e.key},
             prev_key |-> e.key,
             min_entry |-> b.min_entry]

\* filter.may_match(&key_bytes)
MayMatch(kind, filter, key) == kind = "all" \/ key \in filter

\* find_in_sequence over the encoded entries buf: the last entry of the key
\* before the first greater key.
RECURSIVE FindInSequence(_, _, _, _)
FindInSequence(buf, key, prev_key, target) ==
    IF buf = <<>> THEN [pc |-> "ok", entry |-> target]
    ELSE LET d == SharePrefixEntryDecode(Head(buf), prev_key)
         IN IF d = <<>> THEN [pc |-> "corruption", entry |-> <<>>]
            ELSE IF KeyLess(d[1].key, key)
            THEN FindInSequence(Tail(buf), key, d[1].key, target)
            ELSE IF d[1].key = key
            THEN FindInSequence(Tail(buf), key, d[1].key, d)
            ELSE [pc |-> "ok", entry |-> target]

\* find_dichotomic over chunks, pairs of (start, end) in buf.  chunks[mid]
\* with no chunk at all panics.
RECURSIVE FindDichotomic(_, _, _)
FindDichotomic(buf, key, chunks) ==
    IF Len(chunks) = 1
    THEN FindInSequence(SubSeq(buf, chunks[1][1] + 1, chunks[1][2]), key, <<>>, <<>>)
    ELSE IF chunks = <<>> THEN [pc |-> "panic", entry |-> <<>>]
    ELSE LET mid == Len(chunks) \div 2
             d == SharePrefixEntryDecode(
                      Head(SubSeq(buf, chunks[mid + 1][1] + 1, chunks[mid + 1][2])), <<>>)
         IN IF d = <<>> THEN [pc |-> "corruption", entry |-> <<>>]
            ELSE IF KeyLess(key, d[1].key)
            THEN FindDichotomic(buf, key, SubSeq(chunks, 1, mid))
            ELSE FindDichotomic(buf, key, SubSeq(chunks, mid + 1, Len(chunks)))

\* find_in_payload: the restart points and the end of the entries make the
\* chunks.
FindInPayload(b, key) ==
    LET restart_points == Append(b.restart_points, Len(b.entries))
        chunks == [i \in 1..Len(restart_points) - 1 |->
                      <<restart_points[i], restart_points[i + 1]>>]
    IN FindDichotomic(b.entries, key, chunks)

\* find on the block Builder::build makes of b.
Find(b, key, kind) ==
    IF kind # "none" /\ ~MayMatch(kind, b.filter, key)
    THEN [pc |-> "ok", entry |-> <<>>]
    ELSE LET r == FindInPayload(b, key)
             min_entry == b.min_entry[1]
         IN IF r.pc # "ok" THEN r
            ELSE IF r.entry # <<>>
            THEN IF min_entry.key # key THEN r
                 ELSE IF min_entry.seq > r.entry[1].seq
                      THEN [pc |-> "ok", entry |-> b.min_entry]
                      ELSE r
            ELSE IF min_entry.key = key THEN [pc |-> "ok", entry |-> b.min_entry]
                 ELSE r

\* Builder::new, and the entries, sorted by key and seq, that will be appended.
LkStart ==
    /\ \E es \in SstStreams : \E ri \in 1..MaxRestartInterval :
       \E kind \in FilterKinds :
          lk = [entries |-> es, restart_interval |-> ri, filter |-> kind,
                appended |-> 0, builder |-> DbBuilderNew, key |-> <<>>,
                found |-> <<>>]
    /\ lk_pc = "build"

\* Builder::append of the next entry.
LkAppend ==
    /\ lk_pc = "build"
    /\ lk.appended < Len(lk.entries)
    /\ lk' = [lk EXCEPT
                !.builder = DbBuilderAppend(@, lk.entries[lk.appended + 1],
                                            lk.restart_interval),
                !.appended = @ + 1]
    /\ UNCHANGED lk_pc
    /\ UNCHANGED non_lk_vars

\* Builder::build after the last append, then find of a key in the block.
LkFind ==
    /\ lk_pc = "build"
    /\ lk.appended = Len(lk.entries)
    /\ \E key \in SstKeys :
          LET r == Find(lk.builder, key, lk.filter)
          IN /\ lk' = [lk EXCEPT !.key = key, !.found = r.entry]
             /\ lk_pc' = IF r.pc = "ok" THEN "found" ELSE r.pc
    /\ UNCHANGED non_lk_vars

InitLk ==
    InitDB /\ DumpInit /\ MergeOff /\ LockInit /\ SstOff /\ WioOff /\ SmOff
        /\ BlOff /\ IxOff /\ LkStart

NextLk ==
    \/ LkAppend
    \/ LkFind

SpecLk == InitLk /\ [][NextLk]_vars

\* The entry of the largest seq among the entries of key, <<>> without one.
NewestOfKey(entries, key) ==
    LET S == {e \in SeqToSet(entries) : e.key = key}
    IN IF S = {} THEN <<>>
       ELSE <<CHOOSE e \in S : \A x \in S : x.seq <= e.seq>>

\* C34: find in the block built of the entries returns, for a key the block
\* holds, its entry of the largest seq, and None for a key it does not hold;
\* it does so for the key of the first entry too, with or without a filter,
\* and in a block of one entry.
C34_FindReturnsNewest ==
    lk_pc \in {"found", "panic", "corruption"} =>
        lk_pc = "found" /\ lk.found = NewestOfKey(lk.entries, lk.key)


ManifestFileSeqs(m) == Listing(m).wals \cup Listing(m).ssts

\* C37: the file_seq alloc_wal or alloc_sst returns, after Manifest::load as
\* after Manifest::new, is greater than every file_seq the manifest names at
\* the call: a new file never gets the name of a live one.
C37_AllocAboveLoadedFiles ==
    [][/\ \A t \in Writers :
             (pc[t] = "new_wal" /\ pc'[t] = "create_wal") =>
                 \A f \in ManifestFileSeqs(manifest) : f < new_wal_seq'[t]
       /\ AllocSstReturns =>
             \A f \in ManifestFileSeqs(manifest) : f < manifest.next_file_seq]_vars


\* ------------------------------------------------------------------ published names and files
\* C38: every WAL the published manifest names is a file of the wal directory
\* and every SST it names is a file of a level directory, from the moment the
\* manifest is published until a later published manifest drops the name.
C38_PublishedFilesExist ==
    db \in {"open", "closing"} =>
        /\ current.wals \subseteq wal_names
        /\ \A f \in current.ssts : \E l \in Levels : <<l, f>> \in DOMAIN sst_files


\* ------------------------------------------------------------------ a failed WAL append
\* MemDB::write: append(write_batch)? returns Err (the write to the WAL file
\* failed, no record is added); MemDB::write and DB::write return the error at
\* once, without write_finished.  mem_table.update ran before the append.
AppendFail(t) ==
    /\ pc[t] = "append"
    /\ pc' = [pc EXCEPT ![t] = "idle"]
    /\ req' = [req EXCEPT ![t] = <<>>]
    /\ batch' = [batch EXCEPT ![t] = <<>>]
    /\ UNCHANGED <<db, session, new_wal_seq, manifest, bg, minor_sst,
                   request_close>>
    /\ UNCHANGED mem_vars
    /\ UNCHANGED disk_vars
    /\ UNCHANGED ghost_vars
    /\ UNCHANGED aux_vars

NextAppendErr ==
    \/ Next
    \/ \E t \in Writers : AppendFail(t)

SpecAppendErr == Init /\ [][NextAppendErr]_vars

\* C39: when DB::write returns the error of a failed WAL append, no entry of
\* the failed batch is in the memtable, and a get of any of its keys does not
\* return one of them.
C39_FailedWriteLeavesNoEntry ==
    [][\A t \in Writers :
          (pc[t] = "append" /\ pc'[t] = "idle") =>
              \A e \in SeqToSet(batch[t]) :
                  /\ e \notin mut_table'
                  /\ MemTableGet(mut_table', immut_table', e.key, U64_MAX) # e]_vars


\* ------------------------------------------------------------------ the recovered immutable table
\* The background thread runs on its own; a client need not call write again.
\* wait_immut returns after its timeout at the latest, so the loop goes on.
FairSpecReopen == SpecReopen /\ WF_vars(Background)

\* The table load_mem_db recovers from WAL 1 of the reopened DB.
RecoveredTable ==
    InsertAll({}, SetSeqs(BatchEntries(<<Put(1)>>, 1), 1)
                  \o SetSeqs(BatchEntries(<<Put(2), Delete(1)>>, 2), 2))

\* The recovered table is in a level-1 SST of the manifest and its WAL is no
\* longer listed.
RecoveredCompacted ==
    /\ \E f \in manifest.sstables[LEVEL_MIN] :
          /\ <<LEVEL_MIN, f>> \in DOMAIN sst_files
          /\ RecoveredTable \subseteq sst_files[<<LEVEL_MIN, f>>]
    /\ 1 \notin manifest.wals

====
